---- MODULE Spec2Model ----
(***************************************************************************)
(* Sansao request pipeline: Router (core/router), App.fetch and its phase  *)
(* validators (core/app), and the zod validation adapter.                  *)
(*                                                                         *)
(* Strings that the code inspects character by character (paths, route     *)
(* keys, query values, body text) are sequences of one-character strings.  *)
(* JavaScript values are tagged records:                                   *)
(*   [t |-> "str", s], [t |-> "num", n, e] (n * 10^-e), [t |-> "bool", b], *)
(*   [t |-> "null"], [t |-> "undef"], [t |-> "list", l], [t |-> "obj", o]. *)
(***************************************************************************)
EXTENDS Integers, Sequences, FiniteSets, TLC

\* ------------------------------------------------------------------------
\* Bounds of the model
\* ------------------------------------------------------------------------
MaxRoutes == 3
MaxAppRoutes == 1
MaxMiddlewares == 2
MaxLateUses == 2

\* ------------------------------------------------------------------------
\* JavaScript values
\* ------------------------------------------------------------------------
Str(s) == [t |-> "str", s |-> s]
Num(n, e) == [t |-> "num", n |-> n, e |-> e]
Bool(b) == [t |-> "bool", b |-> b]
Null == [t |-> "null"]
Undefined == [t |-> "undef"]
List(l) == [t |-> "list", l |-> l]
Obj(o) == [t |-> "obj", o |-> o]
EmptyObj == Obj(<<>>)

Range(f) == {f[i] : i \in DOMAIN f}

\* ------------------------------------------------------------------------
\* String built-ins used by the router: split, filter(Boolean), join,
\* startsWith, slice
\* ------------------------------------------------------------------------
IndexOf(s, c) ==
  IF \E i \in 1..Len(s) : s[i] = c
  THEN CHOOSE i \in 1..Len(s) : s[i] = c /\ \A j \in 1..(i - 1) : s[j] # c
  ELSE 0

RECURSIVE Split(_, _)
Split(s, c) ==
  LET i == IndexOf(s, c)
  IN IF i = 0 THEN <<s>>
     ELSE <<SubSeq(s, 1, i - 1)>> \o Split(SubSeq(s, i + 1, Len(s)), c)

RECURSIVE Join(_, _)
Join(parts, c) ==
  IF Len(parts) = 0 THEN <<>>
  ELSE IF Len(parts) = 1 THEN parts[1]
  ELSE parts[1] \o <<c>> \o Join(Tail(parts), c)

FilterBoolean(parts) == SelectSeq(parts, LAMBDA p : p # <<>>)

StartsWith(s, c) == Len(s) > 0 /\ s[1] = c

Slice1(s) == SubSeq(s, 2, Len(s))

\* ------------------------------------------------------------------------
\* decodeURIComponent: %XX escapes are bytes, the bytes must be well-formed
\* UTF-8, anything else raises URIError
\* ------------------------------------------------------------------------
HexDigits ==
  [c \in {"0","1","2","3","4","5","6","7","8","9",
          "a","b","c","d","e","f","A","B","C","D","E","F"} |->
     CASE c = "0" -> 0 [] c = "1" -> 1 [] c = "2" -> 2 [] c = "3" -> 3
       [] c = "4" -> 4 [] c = "5" -> 5 [] c = "6" -> 6 [] c = "7" -> 7
       [] c = "8" -> 8 [] c = "9" -> 9
       [] c \in {"a", "A"} -> 10 [] c \in {"b", "B"} -> 11
       [] c \in {"c", "C"} -> 12 [] c \in {"d", "D"} -> 13
       [] c \in {"e", "E"} -> 14 [] c \in {"f", "F"} -> 15]

\* The characters the modelled paths can decode to; any other code point
\* is kept as a number-tagged placeholder character.
CharOfCode ==
  [n \in {32, 37, 47, 58, 65, 97, 233} |->
     CASE n = 32 -> " " [] n = 37 -> "%" [] n = 47 -> "/" [] n = 58 -> ":"
       [] n = 65 -> "A" [] n = 97 -> "a" [] n = 233 -> "e'"]

Chr(n) == IF n \in DOMAIN CharOfCode THEN CharOfCode[n] ELSE "?"

\* The byte at position i of s when s[i..i+2] is a %XX escape, else -1
EscapeAt(s, i) ==
  IF i + 2 <= Len(s) /\ s[i] = "%"
     /\ s[i + 1] \in DOMAIN HexDigits /\ s[i + 2] \in DOMAIN HexDigits
  THEN 16 * HexDigits[s[i + 1]] + HexDigits[s[i + 2]]
  ELSE -1

\* Number of continuation bytes a UTF-8 lead byte announces, -1 if the byte
\* cannot start a sequence
Utf8Extra(b) ==
  IF b < 128 THEN 0
  ELSE IF b >= 194 /\ b <= 223 THEN 1
  ELSE IF b >= 224 /\ b <= 239 THEN 2
  ELSE IF b >= 240 /\ b <= 244 THEN 3
  ELSE -1

\* Range allowed for the first continuation byte after lead byte b
Utf8SecondLo(b) == IF b = 224 THEN 160 ELSE IF b = 240 THEN 144 ELSE 128
Utf8SecondHi(b) == IF b = 237 THEN 159 ELSE IF b = 244 THEN 143 ELSE 191

Utf8ContOk(s, i, b, k) ==
  \A j \in 1..k :
    LET c == EscapeAt(s, i + 3 * j)
    IN IF j = 1 THEN c >= Utf8SecondLo(b) /\ c <= Utf8SecondHi(b)
       ELSE c >= 128 /\ c <= 191

Utf8CodePoint(s, i, b, k) ==
  IF k = 0 THEN b
  ELSE IF k = 1 THEN (b - 192) * 64 + (EscapeAt(s, i + 3) - 128)
  ELSE IF k = 2 THEN (b - 224) * 4096 + (EscapeAt(s, i + 3) - 128) * 64
                      + (EscapeAt(s, i + 6) - 128)
  ELSE (b - 240) * 262144 + (EscapeAt(s, i + 3) - 128) * 4096
       + (EscapeAt(s, i + 6) - 128) * 64 + (EscapeAt(s, i + 9) - 128)

RECURSIVE DecodeFrom(_, _)
DecodeFrom(s, i) ==
  IF i > Len(s) THEN [ok |-> TRUE, s |-> <<>>]
  ELSE IF s[i] # "%"
  THEN LET rest == DecodeFrom(s, i + 1)
       IN IF rest.ok THEN [ok |-> TRUE, s |-> <<s[i]>> \o rest.s] ELSE rest
  ELSE LET b == EscapeAt(s, i)
           k == IF b < 0 THEN -1 ELSE Utf8Extra(b)
       IN IF k < 0 \/ ~Utf8ContOk(s, i, b, k) THEN [ok |-> FALSE, s |-> <<>>]
          ELSE LET rest == DecodeFrom(s, i + 3 * (k + 1))
               IN IF rest.ok
                  THEN [ok |-> TRUE,
                        s |-> <<Chr(Utf8CodePoint(s, i, b, k))>> \o rest.s]
                  ELSE rest

decodeURIComponent(s) == DecodeFrom(s, 1)

\* ------------------------------------------------------------------------
\* Router
\* ------------------------------------------------------------------------
getRouteKey(method, path) == method \o <<":">> \o path

\* Map.set: a new key is appended, an existing key keeps its position and
\* gets the new value
MapSet(m, key, value) ==
  IF \E i \in 1..Len(m) : m[i].key = key
  THEN [i \in 1..Len(m) |->
          IF m[i].key = key THEN [key |-> key, value |-> value] ELSE m[i]]
  ELSE Append(m, [key |-> key, value |-> value])

\* The mutation rejects a second registration under a key
Router_register_keepFirst(rts, contract) ==
  IF \E i \in 1..Len(rts) :
       rts[i].key = getRouteKey(contract.method, contract.path)
  THEN rts
  ELSE MapSet(rts, getRouteKey(contract.method, contract.path), contract)

Router_register(rts, contract) ==
  MapSet(rts, getRouteKey(contract.method, contract.path), contract)

\* Outcome of the try/catch around decodeURIComponent in matchPath:
\* the decoded text, or "nomatch" when decoding raised (return null)
decodeParam_uncaught(pathPart) ==
  LET decoded == decodeURIComponent(pathPart)
  IN IF decoded.ok THEN [kind |-> "ok", s |-> decoded.s]
     ELSE [kind |-> "throw"]

decodeParam(pathPart) ==
  LET decoded == decodeURIComponent(pathPart)
  IN IF decoded.ok THEN [kind |-> "ok", s |-> decoded.s]
     ELSE [kind |-> "nomatch"]

\* [kind |-> "match", params] on success, [kind |-> "nomatch"] for null,
\* [kind |-> "throw"] when an exception leaves matchPath
RECURSIVE matchPathFrom(_, _, _, _)
matchPathFrom(routeParts, pathParts, i, params) ==
  IF i > Len(routeParts) THEN [kind |-> "match", params |-> params]
  ELSE LET routePart == routeParts[i]
           pathPart == pathParts[i]
       IN IF StartsWith(routePart, ":")
          THEN LET paramName == Slice1(routePart)
                   decoded == decodeParam(pathPart)
               IN IF decoded.kind # "ok" THEN [kind |-> decoded.kind]
                  ELSE matchPathFrom(routeParts, pathParts, i + 1,
                         [k \in DOMAIN params \cup {paramName} |->
                            IF k = paramName THEN decoded.s ELSE params[k]])
          ELSE IF routePart # pathPart THEN [kind |-> "nomatch"]
          ELSE matchPathFrom(routeParts, pathParts, i + 1, params)

matchPath(routePath, pathname) ==
  LET routeParts == FilterBoolean(Split(routePath, "/"))
      pathParts == FilterBoolean(Split(pathname, "/"))
  IN IF Len(routeParts) # Len(pathParts) THEN [kind |-> "nomatch"]
     ELSE matchPathFrom(routeParts, pathParts, 1, <<>>)

staticSegments(routePath) ==
  Len(SelectSeq(FilterBoolean(Split(routePath, "/")),
                LAMBDA segment : ~StartsWith(segment, ":")))

NoMatch == [kind |-> "nomatch"]

\* The comparison that lets a later candidate replace the current best
isBetter_lastTieWins(staticCount, bestStaticSegments) ==
  staticCount >= bestStaticSegments

isBetter_firstMatchWins(staticCount, bestStaticSegments) ==
  bestStaticSegments = -1

isBetter(staticCount, bestStaticSegments) ==
  staticCount > bestStaticSegments

\* The loop of Router.find over the Map's entries in insertion order.
\* The result is [kind |-> "match", contract, params], NoMatch for null, or
\* [kind |-> "throw"] when matchPath raised.
RECURSIVE findFrom(_, _, _, _, _, _)
findFrom(rts, method, pathname, i, bestMatch, bestStaticSegments) ==
  IF i > Len(rts) THEN bestMatch
  ELSE LET parts == Split(rts[i].key, ":")
           routeMethod == parts[1]
           routePath == Join(Tail(parts), ":")
           params == IF routeMethod # method THEN [kind |-> "nomatch"]
                     ELSE matchPath(routePath, pathname)
       IN IF params.kind = "throw" THEN [kind |-> "throw"]
          ELSE IF params.kind = "nomatch"
          THEN findFrom(rts, method, pathname, i + 1,
                        bestMatch, bestStaticSegments)
          ELSE IF isBetter(staticSegments(routePath), bestStaticSegments)
          THEN findFrom(rts, method, pathname, i + 1,
                        [kind |-> "match", contract |-> rts[i].value,
                         params |-> params.params],
                        staticSegments(routePath))
          ELSE findFrom(rts, method, pathname, i + 1,
                        bestMatch, bestStaticSegments)

Router_find(rts, method, pathname) ==
  findFrom(rts, method, pathname, 1, NoMatch, -1)

\* ------------------------------------------------------------------------
\* Validation adapter (zodValidator) over the schemas the contracts use:
\*   [kind |-> "object", fields |-> <<[key, type, opt], ...>>, optional]
\*   models z.object({...}) (.optional()), with field types z.string(),
\*   z.number(), z.boolean() and z.string().regex(/^\d+$/) ("digits");
\*   [kind |-> "foreign"] is a schema of another library;
\*   NoSchema stands for an absent contract field.
\* ------------------------------------------------------------------------
NoSchema == [kind |-> "none"]

Digits == {"0","1","2","3","4","5","6","7","8","9"}

IsDigits(s) == Len(s) > 0 /\ \A i \in 1..Len(s) : s[i] \in Digits

FieldTypeOk(type, v) ==
  CASE type = "string" -> v.t = "str"
    [] type = "number" -> v.t = "num"
    [] type = "boolean" -> v.t = "bool"
    [] type = "digits" -> v.t = "str" /\ IsDigits(v.s)

FieldOk(field, data) ==
  IF field.key \in DOMAIN data.o
  THEN FieldTypeOk(field.type, data.o[field.key])
  ELSE field.opt

ZodError(issues) == [kind |-> "ZodError", issues |-> issues]

\* One issue per failing field, in schema order; a wrong root type is one
\* issue with the empty path
RECURSIVE FieldIssues(_, _, _)
FieldIssues(fields, data, i) ==
  IF i > Len(fields) THEN <<>>
  ELSE (IF FieldOk(fields[i], data) THEN <<>>
        ELSE <<[path |-> <<fields[i].key>>]>>)
       \o FieldIssues(fields, data, i + 1)

SchemaKeys(schema) == {schema.fields[i].key : i \in 1..Len(schema.fields)}

safeParse(schema, data) ==
  IF data.t = "undef"
  THEN IF schema.optional THEN [success |-> TRUE, data |-> Undefined]
       ELSE [success |-> FALSE, error |-> ZodError(<<[path |-> <<>>]>>)]
  ELSE IF data.t # "obj"
  THEN [success |-> FALSE, error |-> ZodError(<<[path |-> <<>>]>>)]
  ELSE LET issues == FieldIssues(schema.fields, data, 1)
       IN IF Len(issues) = 0
          THEN [success |-> TRUE,
                data |-> Obj([k \in SchemaKeys(schema) \cap DOMAIN data.o |->
                                data.o[k]])]
          ELSE [success |-> FALSE, error |-> ZodError(issues)]

NotZodSchemaError == [kind |-> "string", text |-> "Schema is not a Zod schema"]

zodValidator_parse(schema, data) ==
  IF schema.kind # "object"
  THEN [success |-> FALSE, error |-> NotZodSchemaError]
  ELSE safeParse(schema, data)

RECURSIVE ErrorPathsFrom(_, _)
ErrorPathsFrom(issues, i) ==
  IF i > Len(issues) THEN <<>>
  ELSE (IF Len(issues[i].path) > 0 THEN <<issues[i].path[1]>> ELSE <<>>)
       \o ErrorPathsFrom(issues, i + 1)

zodValidator_getErrorPaths(error) ==
  IF error.kind # "ZodError" THEN <<>>
  ELSE ErrorPathsFrom(error.issues, 1)

\* ------------------------------------------------------------------------
\* App: query parsing with the coercion retry
\* ------------------------------------------------------------------------
RECURSIVE DigitsToInt(_)
DigitsToInt(s) ==
  IF Len(s) = 0 THEN 0
  ELSE 10 * DigitsToInt(SubSeq(s, 1, Len(s) - 1)) + HexDigits[s[Len(s)]]

RECURSIVE StripTrailingZeros(_)
StripTrailingZeros(s) ==
  IF Len(s) > 0 /\ s[Len(s)] = "0"
  THEN StripTrailingZeros(SubSeq(s, 1, Len(s) - 1))
  ELSE s

\* /^-?(?:0|[1-9]\d*)(?:\.\d+)?$/
Unsigned(value) == IF StartsWith(value, "-") THEN Slice1(value) ELSE value
IntPart(value) ==
  LET u == Unsigned(value)
      dot == IndexOf(u, ".")
  IN IF dot = 0 THEN u ELSE SubSeq(u, 1, dot - 1)
FracPart(value) ==
  LET u == Unsigned(value)
      dot == IndexOf(u, ".")
  IN IF dot = 0 THEN <<>> ELSE SubSeq(u, dot + 1, Len(u))

IsNumeral(value) ==
  LET u == Unsigned(value)
      dot == IndexOf(u, ".")
      int == IntPart(value)
  IN /\ IsDigits(int)
     /\ (int = <<"0">> \/ int[1] # "0")
     /\ (dot # 0 => IsDigits(FracPart(value)))

\* Number(value) for a value that matches the numeral grammar, as the
\* decimal n * 10^-e in lowest terms (-0 and 0 are the same number)
NumberOf(value) ==
  LET frac == StripTrailingZeros(FracPart(value))
      mag == DigitsToInt(IntPart(value) \o frac)
  IN Num(IF StartsWith(value, "-") THEN 0 - mag ELSE mag, Len(frac))

coerceQueryValue(value) ==
  IF value = <<"t","r","u","e">> THEN Bool(TRUE)
  ELSE IF value = <<"f","a","l","s","e">> THEN Bool(FALSE)
  ELSE IF value = <<"n","u","l","l">> THEN Null
  ELSE IF IsNumeral(value) THEN NumberOf(value)
  ELSE Str(value)

coerceItem(v) == coerceQueryValue(v.s)

coerceQueryObject_allKeys(input, keysToCoerce) ==
  Obj([key \in DOMAIN input.o |->
         IF input.o[key].t = "list"
         THEN List([i \in 1..Len(input.o[key].l) |->
                      coerceItem(input.o[key].l[i])])
         ELSE coerceItem(input.o[key])])

coerceQueryObject(input, keysToCoerce) ==
  Obj([key \in DOMAIN input.o |->
         IF key \notin keysToCoerce THEN input.o[key]
         ELSE IF input.o[key].t = "list"
         THEN List([i \in 1..Len(input.o[key].l) |->
                      coerceItem(input.o[key].l[i])])
         ELSE coerceItem(input.o[key])])

\* The loop of parseQuery that folds the URLSearchParams entries into an
\* object: a repeated key becomes the list of its values
RECURSIVE queryObjectFrom(_, _, _)
queryObjectFrom(searchParams, i, obj) ==
  IF i > Len(searchParams) THEN Obj(obj)
  ELSE LET key == searchParams[i].key
           value == Str(searchParams[i].value)
           entry == IF key \in DOMAIN obj
                    THEN IF obj[key].t = "list"
                         THEN List(Append(obj[key].l, value))
                         ELSE List(<<obj[key], value>>)
                    ELSE value
       IN queryObjectFrom(searchParams, i + 1,
            [k \in DOMAIN obj \cup {key} |->
               IF k = key THEN entry ELSE obj[k]])

\* The validation adapters an App can be configured with: "zod" is
\* zodValidator, "noPaths" is an adapter without getErrorPaths
\* The schemas of the modelled contracts
ParamId == <<"i","d">>

Field(key, type) == [key |-> key, type |-> type, opt |-> FALSE]
ObjectSchema(fields) ==
  [kind |-> "object", fields |-> fields, optional |-> FALSE]

ParamsSchema == ObjectSchema(<<Field(ParamId, "digits")>>)
QuerySchema == ObjectSchema(<<Field("id", "string"), Field("page", "number")>>)
HeadersSchema == ObjectSchema(<<Field("x-api-key", "string")>>)
BodySchema == ObjectSchema(<<Field("name", "string")>>)
UserSchema == ObjectSchema(<<Field("id", "string"), Field("name", "string")>>)

\* options.validator: "zod", "noPaths" (the zod adapter without
\* getErrorPaths), or a custom adapter whose parse raises an exception when
\* handed one schema and is the zod adapter otherwise
RaisingSchema(validator) ==
  CASE validator = "raisesOnParams" -> ParamsSchema
    [] validator = "raisesOnQuery" -> QuerySchema
    [] validator = "raisesOnHeaders" -> HeadersSchema
    [] validator = "raisesOnBody" -> BodySchema
    [] validator = "raisesOnResponse" -> UserSchema
    [] OTHER -> NoSchema

\* In place of a result: parse did not return
AdapterRaised == [kind |-> "raised"]

Raised(result) == ~result.success /\ result.error = AdapterRaised

Validator_parse(validator, schema, data) ==
  IF schema = RaisingSchema(validator)
  THEN [success |-> FALSE, error |-> AdapterRaised]
  ELSE zodValidator_parse(schema, data)

\* options.validator.getErrorPaths is defined
Validator_hasErrorPaths_always(validator) == TRUE

Validator_hasErrorPaths(validator) == validator # "noPaths"

\* parseQuery: the result handed back to fetch and the list of calls made
\* to the adapter, [data, result] each
parseQuery_alwaysRetry(validator, schema, searchParams) ==
  LET obj == queryObjectFrom(searchParams, 1, <<>>)
      rawResult == Validator_parse(validator, schema, obj)
      keysToCoerce == IF rawResult.success THEN {}
                      ELSE Range(zodValidator_getErrorPaths(rawResult.error))
      coercedObj == coerceQueryObject(obj, keysToCoerce)
      coercedResult == Validator_parse(validator, schema, coercedObj)
  IN [result |-> coercedResult,
      calls |-> <<[data |-> obj, result |-> rawResult],
                  [data |-> coercedObj, result |-> coercedResult]>>]

parseQuery(validator, schema, searchParams) ==
  LET obj == queryObjectFrom(searchParams, 1, <<>>)
      rawResult == Validator_parse(validator, schema, obj)
      first == <<[data |-> obj, result |-> rawResult]>>
  IN IF rawResult.success THEN [result |-> rawResult, calls |-> first]
     ELSE IF ~Validator_hasErrorPaths(validator)
     THEN [result |-> rawResult, calls |-> first]
     ELSE LET keysToCoerce == Range(zodValidator_getErrorPaths(rawResult.error))
          IN IF Cardinality(keysToCoerce) = 0
             THEN [result |-> rawResult, calls |-> first]
             ELSE LET coercedObj == coerceQueryObject(obj, keysToCoerce)
                      coercedResult ==
                        Validator_parse(validator, schema, coercedObj)
                  IN [result |-> coercedResult,
                      calls |-> Append(first, [data |-> coercedObj,
                                               result |-> coercedResult])]

\* Object.fromEntries(url.searchParams): the last value of a key wins
RECURSIVE fromEntries(_, _, _)
fromEntries(searchParams, i, obj) ==
  IF i > Len(searchParams) THEN Obj(obj)
  ELSE fromEntries(searchParams, i + 1,
         [k \in DOMAIN obj \cup {searchParams[i].key} |->
            IF k = searchParams[i].key THEN Str(searchParams[i].value)
            ELSE obj[k]])

\* ------------------------------------------------------------------------
\* App: error responses
\* ------------------------------------------------------------------------
RESPONSE_VALIDATION_MAX_BODY_BYTES == 1048576
RESPONSE_VALIDATION_READ_TIMEOUT_MS == 50

\* typeof status === "number" && Number.isInteger(status) && 100..599;
\* status is a JS value, a number being n * 10^-e in lowest terms
normalizeStatusCode_trusting(status) ==
  IF status.t = "num" /\ status.e = 0 THEN status.n ELSE 500

normalizeStatusCode(status) ==
  IF status.t = "num" /\ status.e = 0 /\ status.n >= 100 /\ status.n <= 599
  THEN status.n
  ELSE 500

NoCode == [present |-> FALSE]
Code(c) == [present |-> TRUE, code |-> c]
NoDetails == [present |-> FALSE]
Details(d) == [present |-> TRUE, value |-> d]

\* A value JSON.stringify cannot serialize (a BigInt)
BigInt == [t |-> "bigint"]

\* JSON.stringify(payload) throws a TypeError on such details
Serializable(details) == ~(details.present /\ details.value = BigInt)

\* new Response(JSON.stringify({error, code?, details?}), {status, ...})
errorResponse(status, error, code, details) ==
  [origin |-> [kind |-> "framework", index |-> -1],
   status |-> normalizeStatusCode(status),
   contentType |-> "application/json",
   error |-> error, code |-> code, details |-> details]

\* ------------------------------------------------------------------------
\* App: normalization of thrown values
\* ------------------------------------------------------------------------
\* A thrown value: class is "HttpError", "Error", "object" (any other
\* non-null object), "primitive" or "null"; status, message, code and
\* details are the JS values of those properties
Thrown(class, status, message, code, details) ==
  [class |-> class, status |-> status, message |-> message, code |-> code,
   details |-> details]

DefaultMessage == "Internal Server Error"

\* error.message || "Internal Server Error"
MessageOr(message) ==
  IF message.t = "str" /\ message.s # "" THEN message.s ELSE DefaultMessage

Normalized(status, message, code, details) ==
  [status |-> status, message |-> message, code |-> code, details |-> details]

IsObject(error) == error.class \in {"HttpError", "Error", "object"}

normalizeError_errorFirst(error) ==
  IF error.class = "HttpError"
  THEN Normalized(normalizeStatusCode(error.status), MessageOr(error.message),
                  IF error.code.t # "undef" THEN Code(error.code.s) ELSE NoCode,
                  IF error.details.t # "undef" THEN Details(error.details)
                  ELSE NoDetails)
  ELSE IF error.class = "Error"
  THEN Normalized(500, MessageOr(error.message), NoCode, NoDetails)
  ELSE IF IsObject(error) /\ error.status.t = "num"
  THEN Normalized(normalizeStatusCode(error.status), MessageOr(error.message),
                  IF error.code.t = "str" THEN Code(error.code.s) ELSE NoCode,
                  IF error.details.t # "undef" THEN Details(error.details)
                  ELSE NoDetails)
  ELSE Normalized(500, DefaultMessage, NoCode, NoDetails)

normalizeError(error) ==
  IF error.class = "HttpError"
  THEN Normalized(normalizeStatusCode(error.status), MessageOr(error.message),
                  IF error.code.t # "undef" THEN Code(error.code.s) ELSE NoCode,
                  IF error.details.t # "undef" THEN Details(error.details)
                  ELSE NoDetails)
  ELSE IF IsObject(error) /\ error.status.t = "num"
  THEN Normalized(normalizeStatusCode(error.status), MessageOr(error.message),
                  IF error.code.t = "str" THEN Code(error.code.s) ELSE NoCode,
                  IF error.details.t # "undef" THEN Details(error.details)
                  ELSE NoDetails)
  ELSE IF error.class = "Error"
  THEN Normalized(500, MessageOr(error.message), NoCode, NoDetails)
  ELSE Normalized(500, DefaultMessage, NoCode, NoDetails)

\* ------------------------------------------------------------------------
\* App: response validation
\* ------------------------------------------------------------------------
NoEnv == "<undefined>"
DenoThrows == "<throws>"

readDenoEnv(env) == IF env.deno = DenoThrows THEN NoEnv ELSE env.deno

isDevelopmentRuntime_strict(env) ==
  IF env.node # NoEnv THEN env.node # "production"
  ELSE IF env.bun # NoEnv THEN env.bun # "production"
  ELSE IF readDenoEnv(env) # NoEnv THEN readDenoEnv(env) # "production"
  ELSE FALSE

isDevelopmentRuntime(env) ==
  IF env.node # NoEnv THEN env.node # "production"
  ELSE IF env.bun # NoEnv THEN env.bun # "production"
  ELSE IF readDenoEnv(env) # NoEnv THEN readDenoEnv(env) # "production"
  ELSE TRUE

shouldValidateResponse_ignoreOff(mode, env) ==
  IF mode = "always" THEN TRUE ELSE isDevelopmentRuntime(env)

shouldValidateResponse(mode, env) ==
  IF mode = "always" THEN TRUE
  ELSE IF mode = "off" THEN FALSE
  ELSE isDevelopmentRuntime(env)

\* Content types are lower-case tokens; String.includes on them
IncludesEventStream(ct) == ct = "text/event-stream"
IncludesNdjson(ct) == ct = "application/x-ndjson"
isJsonContentType(ct) ==
  ct \in {"application/json", "application/problem+json"}

\* content-length header: [kind |-> "absent"], [kind |-> "blank"],
\* [kind |-> "nan"] or [kind |-> "num", n] as Number() reads it
HasValidContentLength(cl) == cl.kind = "num" /\ cl.n >= 0

shouldSkipResponseBodyValidation_lengthOnly(response) ==
  /\ response.body.kind # "none"
  /\ response.contentLength.kind = "num"
  /\ response.contentLength.n > RESPONSE_VALIDATION_MAX_BODY_BYTES

shouldSkipResponseBodyValidation(response) ==
  IF response.body.kind = "none" THEN FALSE
  ELSE IF IncludesEventStream(response.contentType)
          \/ IncludesNdjson(response.contentType) THEN TRUE
  ELSE IF response.contentLength.kind \in {"absent", "blank"} THEN FALSE
  ELSE IF response.contentLength.kind = "nan" \/ response.contentLength.n < 0
  THEN FALSE
  ELSE response.contentLength.n > RESPONSE_VALIDATION_MAX_BODY_BYTES

IsBlank_emptyOnly(text) == Len(text) = 0

IsBlank(text) ==
  \A i \in 1..Len(text) : text[i] \in {" ", "\n", "\t", "\r"}

\* readResponseText on the clone: the text, a skip (timeout or byte cap),
\* a read error, or "pending" when the read never settles
readResponseText(body, useTimeout) ==
  IF body.kind = "none" THEN [success |-> TRUE, kind |-> "data", text |-> <<>>]
  ELSE IF body.bytes > RESPONSE_VALIDATION_MAX_BODY_BYTES
  THEN [success |-> TRUE, kind |-> "skipped"]
  ELSE IF body.stream = "errored"
  THEN [success |-> FALSE, kind |-> "error",
        error |-> [kind |-> "string", text |-> "Failed to read response body"]]
  ELSE IF body.stream = "open"
  THEN IF useTimeout THEN [success |-> TRUE, kind |-> "skipped"]
       ELSE [success |-> TRUE, kind |-> "pending"]
  ELSE [success |-> TRUE, kind |-> "data", text |-> body.text]

\* const cloned = response.clone(): the object whose body is read
cloned_noClone(response) == "original"

cloned(response) == "clone"

\* readResponseBody: kind "data" carries the value for the adapter; read
\* names the object whose body was read, "none" when no body was read.
\* response.clone() raises a TypeError on a body that was already read
\* (stream "disturbed"): kind "threw".
\* readResponseBody after readResponseText has settled with textResult
readResponseBodyAfter(response, textResult) ==
  LET read == [read |-> cloned(response)]
  IN IF textResult.kind # "data" THEN read @@ textResult
     ELSE IF isJsonContentType(response.contentType)
     THEN IF IsBlank(textResult.text)
          THEN read @@ [success |-> TRUE, kind |-> "data",
                        data |-> Undefined]
          ELSE IF response.body.json.ok
          THEN read @@ [success |-> TRUE, kind |-> "data",
                        data |-> response.body.json.value]
          ELSE read @@ [success |-> FALSE, kind |-> "error",
                        error |-> [kind |-> "string",
                                   text |-> "Response body is not valid JSON"]]
     ELSE read @@ [success |-> TRUE, kind |-> "data",
                   data |-> Str(textResult.text)]

readResponseBody(response) ==
  IF response.status = 204 \/ response.status = 304
  THEN [success |-> TRUE, kind |-> "data", data |-> Undefined, read |-> "none"]
  ELSE IF response.body.kind = "none"
  THEN [success |-> TRUE, kind |-> "data", data |-> Undefined, read |-> "none"]
  ELSE IF shouldSkipResponseBodyValidation(response)
  THEN [success |-> TRUE, kind |-> "skipped", read |-> "none"]
  ELSE IF response.body.stream = "disturbed"
  THEN [success |-> FALSE, kind |-> "threw", cause |-> "clone",
        read |-> "none"]
  ELSE readResponseBodyAfter(
         response,
         readResponseText(response.body,
                          ~HasValidContentLength(response.contentLength)))

ResponseSchemaFor_status200(contract, status) ==
  IF 200 \in DOMAIN contract.response THEN contract.response[200]
  ELSE NoSchema

\* contract.response[response.status]
ResponseSchemaFor(contract, status) ==
  IF status \in DOMAIN contract.response THEN contract.response[status]
  ELSE NoSchema

\* The last statement of validateResponse: the adapter's verdict
responseVerdict_lenient(parseResult, call) ==
  [success |-> TRUE, kind |-> "checked", calls |-> call]

responseVerdict(parseResult, call) ==
  IF parseResult.success
  THEN [success |-> TRUE, kind |-> "checked", calls |-> call]
  ELSE [success |-> FALSE, kind |-> "checked",
        error |-> parseResult.error, calls |-> call]

\* validateResponse: the verdict (kind "threw" when an exception leaves
\* it), the calls made to the adapter, and the
\* object whose body was read.  validateResponseAfter is what it does once
\* readResponseBody has settled with bodyResult.
validateResponseAfter_undefinedPasses(validator, schema, bodyResult) ==
  IF bodyResult.kind = "threw"
  THEN [success |-> FALSE, kind |-> "threw", cause |-> bodyResult.cause,
        calls |-> <<>>, read |-> "none"]
  ELSE IF ~bodyResult.success
  THEN [success |-> FALSE, kind |-> "unreadable",
        error |-> bodyResult.error, calls |-> <<>>,
        read |-> bodyResult.read]
  ELSE IF bodyResult.kind # "data"
  THEN [success |-> TRUE, kind |-> bodyResult.kind,
        calls |-> <<>>, read |-> bodyResult.read]
  ELSE IF bodyResult.data = Undefined
  THEN [success |-> TRUE, kind |-> "checked", calls |-> <<>>,
        read |-> bodyResult.read]
  ELSE [read |-> bodyResult.read]
         @@ responseVerdict(
              Validator_parse(validator, schema, bodyResult.data),
              <<[data |-> bodyResult.data,
                 result |-> Validator_parse(validator, schema,
                                            bodyResult.data)]>>)

validateResponseAfter(validator, schema, bodyResult) ==
  IF bodyResult.kind = "threw"
  THEN [success |-> FALSE, kind |-> "threw", cause |-> bodyResult.cause,
        calls |-> <<>>, read |-> "none"]
  ELSE IF ~bodyResult.success
  THEN [success |-> FALSE, kind |-> "unreadable",
        error |-> bodyResult.error, calls |-> <<>>,
        read |-> bodyResult.read]
  ELSE IF bodyResult.kind # "data"
  THEN [success |-> TRUE, kind |-> bodyResult.kind,
        calls |-> <<>>, read |-> bodyResult.read]
  ELSE LET parseResult ==
             Validator_parse(validator, schema, bodyResult.data)
           call == <<[data |-> bodyResult.data,
                      result |-> parseResult]>>
       IN IF Raised(parseResult)
          THEN [success |-> FALSE, kind |-> "threw",
                cause |-> "adapter", calls |-> call,
                read |-> bodyResult.read]
          ELSE [read |-> bodyResult.read]
                 @@ responseVerdict(parseResult, call)

validateResponse(validator, mode, env, contract, response) ==
  IF ~shouldValidateResponse(mode, env)
  THEN [success |-> TRUE, kind |-> "off", calls |-> <<>>, read |-> "none"]
  ELSE IF DOMAIN contract.response = {}
  THEN [success |-> TRUE, kind |-> "noschema", calls |-> <<>>,
        read |-> "none"]
  ELSE IF ResponseSchemaFor(contract, response.status).kind = "none"
  THEN [success |-> TRUE, kind |-> "noschema", calls |-> <<>>,
        read |-> "none"]
  ELSE validateResponseAfter(validator,
                             ResponseSchemaFor(contract, response.status),
                             readResponseBody(response))

\* ------------------------------------------------------------------------
\* App: request body parsing
\* ------------------------------------------------------------------------
MethodCarriesBody_any(method) == TRUE

MethodCarriesBody(method) ==
  method \in {<<"P","O","S","T">>, <<"P","U","T">>,
              <<"P","A","T","C","H">>, <<"D","E","L","E","T","E">>}

\* request.headers.get("content-type") is matched as sent (String.includes)
IncludesJson(ct) == ct \in {"application/json", "application/json; charset=utf-8"}
IncludesUrlEncoded(ct) == ct = "application/x-www-form-urlencoded"
IncludesMultipart(ct) == ct = "multipart/form-data; boundary=x"

\* parseBody: a parse-level failure carries a string and makes no adapter
\* call; otherwise the adapter's verdict on the parsed data.  used says
\* whether the request's body was already read: request.text() then
\* rejects, which leaves parseBody as an exception except in the multipart
\* branch.  consumed and clones say what parseBody did to the request.
parseBody_uncaught(validator, schema, request, used) ==
  LET body == request.body
      fallback == ~IncludesJson(body.contentType)
                  /\ ~IncludesUrlEncoded(body.contentType)
                  /\ ~IncludesMultipart(body.contentType)
      parsed ==
        IF IncludesJson(body.contentType)
        THEN IF IsBlank(body.text) THEN [ok |-> TRUE, data |-> Undefined]
             ELSE IF body.json.ok THEN [ok |-> TRUE, data |-> body.json.value]
             ELSE [ok |-> FALSE, error |-> "Invalid JSON"]
        ELSE IF IncludesUrlEncoded(body.contentType)
        THEN [ok |-> TRUE, data |-> fromEntries(body.form, 1, <<>>)]
        ELSE IF IncludesMultipart(body.contentType)
        THEN IF body.multipartOk /\ ~used
             THEN [ok |-> TRUE, data |-> queryObjectFrom(body.form, 1, <<>>)]
             ELSE [ok |-> FALSE, error |-> "Invalid multipart form data"]
        ELSE IF body.json.ok THEN [ok |-> TRUE, data |-> body.json.value]
             ELSE [ok |-> TRUE, data |-> Str(body.text)]
      effects ==
        [consumed |-> IF fallback THEN ~body.json.ok ELSE TRUE,
         clones |-> IF fallback THEN 1 ELSE 0]
  IN IF (used /\ ~IncludesMultipart(body.contentType)) \/ ~parsed.ok
     THEN [threw |-> TRUE, consumed |-> FALSE, clones |-> effects.clones,
           calls |-> <<>>]
     ELSE IF ~parsed.ok
     THEN [threw |-> FALSE, consumed |-> effects.consumed,
           clones |-> effects.clones,
           result |-> [success |-> FALSE,
                       error |-> [kind |-> "string", text |-> parsed.error]],
           calls |-> <<>>]
     ELSE LET result == Validator_parse(validator, schema, parsed.data)
          IN [threw |-> FALSE, consumed |-> effects.consumed,
              clones |-> effects.clones, result |-> result,
              calls |-> <<[data |-> parsed.data, result |-> result]>>]

parseBody(validator, schema, request, used) ==
  LET body == request.body
      fallback == ~IncludesJson(body.contentType)
                  /\ ~IncludesUrlEncoded(body.contentType)
                  /\ ~IncludesMultipart(body.contentType)
      parsed ==
        IF IncludesJson(body.contentType)
        THEN IF IsBlank(body.text) THEN [ok |-> TRUE, data |-> Undefined]
             ELSE IF body.json.ok THEN [ok |-> TRUE, data |-> body.json.value]
             ELSE [ok |-> FALSE, error |-> "Invalid JSON"]
        ELSE IF IncludesUrlEncoded(body.contentType)
        THEN [ok |-> TRUE, data |-> fromEntries(body.form, 1, <<>>)]
        ELSE IF IncludesMultipart(body.contentType)
        THEN IF body.multipartOk /\ ~used
             THEN [ok |-> TRUE, data |-> queryObjectFrom(body.form, 1, <<>>)]
             ELSE [ok |-> FALSE, error |-> "Invalid multipart form data"]
        ELSE IF body.json.ok THEN [ok |-> TRUE, data |-> body.json.value]
             ELSE [ok |-> TRUE, data |-> Str(body.text)]
      effects ==
        [consumed |-> IF fallback THEN ~body.json.ok ELSE TRUE,
         clones |-> IF fallback THEN 1 ELSE 0]
  IN IF used /\ ~IncludesMultipart(body.contentType)
     THEN [threw |-> TRUE, consumed |-> FALSE, clones |-> effects.clones,
           calls |-> <<>>]
     ELSE IF ~parsed.ok
     THEN [threw |-> FALSE, consumed |-> effects.consumed,
           clones |-> effects.clones,
           result |-> [success |-> FALSE,
                       error |-> [kind |-> "string", text |-> parsed.error]],
           calls |-> <<>>]
     ELSE LET result == Validator_parse(validator, schema, parsed.data)
          IN [threw |-> FALSE, consumed |-> effects.consumed,
              clones |-> effects.clones, result |-> result,
              calls |-> <<[data |-> parsed.data, result |-> result]>>]

\* ------------------------------------------------------------------------
\* App: lifecycle hooks and their body views
\* ------------------------------------------------------------------------
\* The bodies of the request, of the response the chain produced ("chain")
\* and of a framework error response ("framework") are tracked in a record
\*   [used : the objects whose own body was read or locked,
\*    clones : number of clone() calls on the request and on responses]
FreshIo == [used |-> {}, clones |-> [request |-> 0, response |-> 0]]

CloneKind(target) == IF target = "request" THEN "request" ELSE "response"

\* createHookRequestView / createHookResponseView: the object itself when
\* it has no body, else a Proxy with an unset bodyClone
createHookView(target, hasBody) ==
  [target |-> target, proxied |-> hasBody, clone |-> "none",
   cloneUsed |-> FALSE]

createHookRequestView(hasBody) == createHookView("request", hasBody)
createHookResponseView(target, hasBody) == createHookView(target, hasBody)

cloneForHook_noFallback(st) ==
  [st EXCEPT
     !.io.clones[CloneKind(st.view.target)] = @ + 1,
     !.view.clone = "clone",
     !.view.cloneUsed = FALSE]

\* cloneRequestForHook / cloneResponseForHook: target.clone(), which throws
\* on a used body; then a body-less copy is built instead
cloneForHook(st) ==
  [st EXCEPT
     !.io.clones[CloneKind(st.view.target)] = @ + 1,
     !.view.clone = IF st.view.target \in st.io.used THEN "fallback"
                    ELSE "clone",
     !.view.cloneUsed = FALSE]

getBodyClone_noMemo(st) == cloneForHook(st)

\* getBodyClone: if (!bodyClone) bodyClone = clone...; return bodyClone
getBodyClone(st) ==
  IF st.view.clone = "none" THEN cloneForHook(st) ELSE st

Observed(st, op, value) ==
  [st EXCEPT !.obs = Append(@, [op |-> op, value |-> value,
                                clone |-> st.view.clone])]

HookThrows(st, op) == [Observed(st, op, "TypeError") EXCEPT !.threw = TRUE]

\* The object a body reader method of the view reads
readerOf_target(view) == "original"

readerOf(view) == IF view.proxied THEN "clone" ELSE "original"

\* view.text() and the other body reader methods
ViewText(st0) ==
  IF readerOf(st0.view) = "original"
  THEN IF st0.view.proxied
       THEN IF st0.view.target \in st0.io.used THEN HookThrows(st0, "text")
            ELSE Observed([st0 EXCEPT !.io.used = @ \cup {st0.view.target}],
                          "text", "content")
       ELSE Observed(st0, "text", "empty")
  ELSE LET st == getBodyClone(st0)
       IN IF st.view.clone = "fallback" THEN Observed(st, "text", "empty")
          ELSE IF st.view.cloneUsed THEN HookThrows(st, "text")
          ELSE Observed([st EXCEPT !.view.cloneUsed = TRUE], "text", "content")

\* view.body.getReader() and reads to the end of the stream
\* (createHookBodyStreamView)
ViewRead(st0) ==
  IF ~st0.view.proxied THEN HookThrows(st0, "read")
  ELSE LET st == getBodyClone(st0)
       IN IF st.view.clone = "fallback" THEN HookThrows(st, "read")
          ELSE IF st.view.cloneUsed THEN HookThrows(st, "read")
          ELSE Observed([st EXCEPT !.view.cloneUsed = TRUE], "read", "content")

ViewBodyUsed_cloning(st0) ==
  LET st == IF st0.view.proxied THEN getBodyClone(st0) ELSE st0
  IN Observed(st, "bodyUsed",
              IF st.view.proxied
              THEN (IF st.view.cloneUsed THEN "true" ELSE "false")
              ELSE (IF st.view.target \in st.io.used THEN "true"
                    ELSE "false"))

\* view.bodyUsed
ViewBodyUsed(st) ==
  Observed(st, "bodyUsed",
           IF st.view.proxied /\ st.view.clone # "none"
           THEN (IF st.view.cloneUsed THEN "true" ELSE "false")
           ELSE (IF st.view.target \in st.io.used THEN "true" ELSE "false"))

ViewBody_cloning(st0) ==
  LET st == IF st0.view.proxied THEN getBodyClone(st0) ELSE st0
  IN Observed(st, "body", IF st.view.proxied THEN "stream" ELSE "null")

\* view.body: the stream view of a proxied object, made without a clone;
\* null on an object without a body
ViewBody(st) ==
  Observed(st, "body", IF st.view.proxied THEN "stream" ELSE "null")

\* One operation of a hook on its view: metadata access (status, headers),
\* the presence of a body, bodyUsed, a body reader method, a read of the
\* body stream, or a throw of the hook's own
ViewOp(st, op) ==
  CASE op = "meta" -> Observed(st, "meta", "ok")
    [] op = "body" -> ViewBody(st)
    [] op = "bodyUsed" -> ViewBodyUsed(st)
    [] op = "text" -> ViewText(st)
    [] op = "read" -> ViewRead(st)
    [] op = "throw" -> [Observed(st, "throw", "Error") EXCEPT !.threw = TRUE]

\* hook(event): the hook's operations in order, up to the first exception
RECURSIVE RunOps(_, _, _)
RunOps(ops, i, st) ==
  IF i > Len(ops) \/ st.threw THEN st
  ELSE RunOps(ops, i + 1, ViewOp(st, ops[i]))

\* A hook that is not configured
Absent == <<"absent">>

\* What hooks do with the view they are handed
HookPrograms ==
  {<<"meta", "body", "bodyUsed">>,
   <<"bodyUsed", "text", "bodyUsed">>,
   <<"text", "text">>,
   <<"bodyUsed", "read", "bodyUsed">>,
   <<"throw">>,
   <<"text", "throw">>}

\* try { await hook(event) } catch { }
invokeHook_rethrow(outcome) == outcome

invokeHook(outcome) == [outcome EXCEPT !.propagates = FALSE]

\* invokeRequestHook, invokeResponseHook, invokeErrorHook: st is the log of
\* hook events and the bodies' record; event names what the hook is given
invokeLifecycleHook(name, program, view, event, st) ==
  IF program = Absent THEN st
  ELSE LET r == RunOps(program, 1,
                       [view |-> view, io |-> st.io, obs |-> <<>>,
                        threw |-> FALSE])
           entry == [hook |-> name, event |-> event, program |-> program,
                     hadBody |-> view.proxied,
                     usedBefore |-> view.target \in st.io.used,
                     clonesBefore |-> st.io.clones,
                     obs |-> r.obs, threw |-> r.threw, view |-> r.view,
                     clonesAfter |-> r.io.clones]
       IN invokeHook([log |-> Append(st.log, entry), io |-> r.io,
                      propagates |-> r.threw])

\* ------------------------------------------------------------------------
\* Inputs: contracts, handlers, requests, responses
\* ------------------------------------------------------------------------
GET == <<"G","E","T">>
POST == <<"P","O","S","T">>

PathUserId == <<"/","u","/",":","i","d">>
PathUserMe == <<"/","u","/","m","e">>
PathTwoParams == <<"/",":","a","/",":","b">>
PathMeParam == <<"/",":","a","/","m","e">>

Contract(id, method, path, params, query, headers, body, response) ==
  [id |-> id, method |-> method, path |-> path, params |-> params,
   query |-> query, headers |-> headers, body |-> body, response |-> response]

BareContract(id, method, path) ==
  Contract(id, method, path, NoSchema, NoSchema, NoSchema, NoSchema, <<>>)

FullContract(id, method, path) ==
  Contract(id, method, path, ParamsSchema, QuerySchema, HeadersSchema,
           BodySchema, [st \in {200} |-> UserSchema])

\* Contracts of the router specification
RouterContracts ==
  {BareContract("getUserById", GET, PathUserId),
   BareContract("getUserMe", GET, PathUserMe),
   BareContract("getTwoParams", GET, PathTwoParams),
   BareContract("getMeParam", GET, PathMeParam),
   BareContract("getUserById2", GET, PathUserId),
   BareContract("postUserById", POST, PathUserId)}

Pathnames ==
  {<<"/","u","/","m","e">>,
   <<"/","u","/","7">>,
   <<"/","u","/","%","E","0","%","A","4","%","A">>,
   <<"/","u","/","a","%","2","0","b">>,
   <<"/","u","/","/","m","e","/">>,
   <<"/","x">>}

\* Handlers an App is populated with: fn names what the handler function
\* does ("json": returns one of ResponsesOf, "stream": one of
\* StreamResponses, "throws": throws one of ThrownValues, "spent": returns
\* a response whose body it has read), "undefined" for a handler object
\* whose fn is undefined
AppHandlers ==
  {[contract |-> FullContract("postUser", POST, PathUserId), fn |-> "json"],
   [contract |-> FullContract("getUser", GET, PathUserId), fn |-> "json"],
   [contract |-> BareContract("getUserBare", GET, PathUserId), fn |-> "json"],
   [contract |-> BareContract("postUserNoFn", POST, PathUserId), fn |-> "undefined"]}

MiddlewareKinds == {"pass", "short", "replace"}

Entry(key, value) == [key |-> key, value |-> value]

QueryGood == <<Entry("id", <<"1","2","3">>), Entry("page", <<"2">>)>>
QueryBad == <<Entry("id", <<"1","2","3">>), Entry("page", <<"x">>)>>

HeadersGood == Obj([k \in {"x-api-key"} |-> Str(<<"k">>)])
HeadersBad == Obj(<<>>)

JsonBody(text, ok, value) ==
  [contentType |-> "application/json", text |-> text,
   json |-> [ok |-> ok, value |-> value], form |-> <<>>, multipartOk |-> FALSE]

BodyGood ==
  JsonBody(<<"{","\"","n","a","m","e","\"",":","\"","A","\"","}">>, TRUE,
           Obj([k \in {"name"} |-> Str(<<"A">>)]))
BodyBad == JsonBody(<<"{","}">>, TRUE, EmptyObj)
BodyMalformed == JsonBody(<<"{">>, FALSE, Undefined)

RequestPathnames ==
  {<<"/","u","/","7">>,
   <<"/","u","/","m","e">>,
   <<"/","u","/","%","E","0","%","A","4","%","A">>}

Requests ==
  [urlValid : {TRUE},
   method : {GET, POST},
   pathname : RequestPathnames,
   searchParams : {QueryGood, QueryBad},
   headers : {HeadersGood, HeadersBad},
   body : {BodyGood, BodyBad, BodyMalformed}]

NoLength == [kind |-> "absent"]

TextBody(text, ok, value) ==
  [kind |-> "text", text |-> text, json |-> [ok |-> ok, value |-> value],
   stream |-> "closed", bytes |-> Len(text)]

UserJson ==
  TextBody(<<"{","\"","i","d","\"",":","\"","7","\"",",",
             "\"","n","a","m","e","\"",":","\"","A","\"","}">>, TRUE,
           Obj([k \in {"id", "name"} |->
                  IF k = "id" THEN Str(<<"7">>) ELSE Str(<<"A">>)]))
PartialUserJson ==
  TextBody(<<"{","\"","i","d","\"",":","\"","7","\"","}">>, TRUE,
           Obj([k \in {"id"} |-> Str(<<"7">>)]))

Response(origin, status, contentType, body) ==
  [origin |-> origin, status |-> status, contentType |-> contentType,
   contentLength |-> NoLength, body |-> body]

\* The code that runs inside the chain: middleware number i or the handler
InvokedMiddleware(i) == [kind |-> "middleware", index |-> i]
InvokedHandler == [kind |-> "handler", index |-> -1]

\* What the code behind origin may return
ResponsesOf(origin) ==
  {Response(origin, 200, "application/json", UserJson),
   Response(origin, 200, "application/json", PartialUserJson),
   Response(origin, 404, "application/json", PartialUserJson),
   Response(origin, 200, "text/event-stream",
            [kind |-> "text", text |-> <<"d">>,
             json |-> [ok |-> FALSE, value |-> Undefined],
             stream |-> "open", bytes |-> 1])}

MiddlewareResponsesOf(origin) ==
  {Response(origin, 200, "application/json", PartialUserJson),
   Response(origin, 404, "application/json", PartialUserJson)}

RuntimeEnvs ==
  {[node |-> NoEnv, bun |-> NoEnv, deno |-> NoEnv],
   [node |-> "production", bun |-> NoEnv, deno |-> NoEnv],
   [node |-> "development", bun |-> "production", deno |-> NoEnv],
   [node |-> NoEnv, bun |-> "production", deno |-> NoEnv],
   [node |-> NoEnv, bun |-> NoEnv, deno |-> "production"],
   [node |-> NoEnv, bun |-> NoEnv, deno |-> "test"],
   [node |-> NoEnv, bun |-> NoEnv, deno |-> DenoThrows]}

\* Responses of a handler that streams or answers without a body
Body(text, stream, bytes) ==
  [kind |-> "text", text |-> text,
   json |-> [ok |-> FALSE, value |-> Undefined],
   stream |-> stream, bytes |-> bytes]

NoBody == [kind |-> "none"]

NameJson ==
  TextBody(<<"{","\"","n","a","m","e","\"",":","\"","A","\"","}">>, TRUE,
           Obj([k \in {"name"} |-> Str(<<"A">>)]))

StreamBodies ==
  {NoBody, UserJson, PartialUserJson, NameJson,
   Body(<<"d">>, "closed", 1),
   Body(<<"d">>, "open", 1),
   Body(<<"d">>, "errored", 1),
   Body(<<"d">>, "open", RESPONSE_VALIDATION_MAX_BODY_BYTES + 1),
   Body(<<>>, "closed", 0)}

ContentLengths ==
  {NoLength, [kind |-> "blank"], [kind |-> "nan"], [kind |-> "num", n |-> 5],
   [kind |-> "num", n |-> RESPONSE_VALIDATION_MAX_BODY_BYTES + 1]}

StreamResponses ==
  {[origin |-> InvokedHandler, status |-> st, contentType |-> ct,
    contentLength |-> cl, body |-> b] :
     st \in {200, 201, 404}, cl \in ContentLengths, b \in StreamBodies,
     ct \in {"application/json", "text/plain", "text/event-stream",
             "application/x-ndjson"}}

\* What the handler function of each kind may return
\* A response whose body the handler has read before returning it
SpentResponse ==
  Response(InvokedHandler, 200, "application/json",
           [UserJson EXCEPT !.stream = "disturbed"])

HandlerResponses(fn) ==
  IF fn = "stream" THEN StreamResponses
  ELSE IF fn = "spent" THEN {SpentResponse}
  ELSE ResponsesOf(InvokedHandler)

\* Values a handler or a middleware may throw
ThrownValues ==
  {Thrown("HttpError", Num(422, 0), Str("Validation failed"),
          Str("VALIDATION_FAILED"),
          Obj([k \in {"field"} |-> Str(<<"e">>)])),
   Thrown("HttpError", Num(700, 0), Str(""), Undefined, Undefined),
   Thrown("HttpError", Num(400, 0), Str("bad"), Undefined, BigInt),
   Thrown("object", Num(700, 0), Str("Broken status from user-land"),
          Str("BROKEN_STATUS"), Undefined),
   Thrown("object", Num(404, 0), Num(5, 0), Num(7, 0), Str(<<"d">>)),
   Thrown("object", Num(4045, 1), Str("half"), Str("HALF"), Undefined),
   Thrown("HttpError", Num(99, 0), Str("low"), Str("LOW"), Undefined),
   Thrown("object", Str(<<"4","0","4">>), Str("x"), Str("X"), Undefined),
   Thrown("Error", Undefined, Str("boom"), Undefined, Undefined),
   Thrown("Error", Undefined, Str(""), Undefined, Undefined),
   Thrown("Error", Num(409, 0), Str("conflict"), Undefined, Undefined),
   Thrown("primitive", Undefined, Undefined, Undefined, Undefined),
   Thrown("null", Undefined, Undefined, Undefined, Undefined)}

\* ------------------------------------------------------------------------
\* State
\* ------------------------------------------------------------------------
VARIABLES
  routes,       \* Router.routes: the Map's entries in insertion order
  handlers,     \* App.handlers: contract identity -> what fn does
  middlewares,  \* App.middlewares
  options,      \* App.options: responseValidation, validator, hooks
  pc,           \* position of the one App.fetch call
  request,      \* the Request handed to fetch
  phase,        \* fetch's local variable phase
  entered,      \* the values phase has taken, in order
  match,        \* the RouteMatch of this request
  ctx,          \* the Context: params, query, headers, body
  adapterLog,   \* calls made to the validation adapter: surface, data, result
  chain,        \* executeMiddleware: mode, index, stack of awaiting middleware
  invoked,      \* middleware indices and "handler", in order of invocation
  nextCalled,   \* indices of the middleware that called next
  chainResponse,\* what executeMiddleware(0) resolved to
  envSeen,      \* the runtime environment isDevelopmentRuntime read
  validation,   \* the verdict of validateResponse
  response,     \* what fetch returned
  hookLog,      \* the hook invocations of this fetch, in order
  io,           \* the bodies: which were read, how often clone() was called
  caught,       \* the exception fetch's catch block received, and its phase
  lookup,       \* router specification: the last find and its result
  pq,           \* query specification: the last parseQuery and its result
  inflight,     \* concurrent specification: the App.fetch calls in flight
  heap,         \* concurrent specification: the Context instances, by identity
  rd            \* read specification: one readResponseBody call and its clock

vars == <<routes, handlers, middlewares, options, pc, request, phase, entered,
          match, ctx, adapterLog, chain, invoked, nextCalled, chainResponse,
          envSeen, validation, response, hookLog, io, caught, lookup, pq,
          inflight, heap, rd>>

appVars == <<routes, handlers, middlewares, options>>
fetchVars == <<pc, request, phase, entered, match, ctx, adapterLog, chain,
               invoked, nextCalled, chainResponse, envSeen, validation,
               response, hookLog, io, caught>>

None == [kind |-> "none"]

NewContext ==
  [params |-> EmptyObj, query |-> EmptyObj, headers |-> EmptyObj,
   body |-> EmptyObj]

IdleChain ==
  [mode |-> "idle", index |-> 0, stack |-> <<>>, ret |-> None, held |-> <<>>]

InitFetch ==
  /\ pc = "setup"
  /\ request = None
  /\ phase = "none"
  /\ entered = <<>>
  /\ match = None
  /\ ctx = None
  /\ adapterLog = <<>>
  /\ chain = IdleChain
  /\ invoked = <<>>
  /\ nextCalled = {}
  /\ chainResponse = None
  /\ envSeen = None
  /\ validation = None
  /\ response = None
  /\ hookLog = <<>>
  /\ io = FreshIo
  /\ caught = None

InitApp ==
  /\ routes = <<>>
  /\ handlers = <<>>
  /\ middlewares = <<>>

\* options.hooks ?? {}
NoHooks == [onRequest |-> FALSE, onResponse |-> FALSE, onError |-> FALSE]

\* new App(options)
Init ==
  /\ InitApp
  /\ options \in [responseValidation : {"off", "development", "always"},
                  validator : {"zod"}, hooks : {NoHooks}]
  /\ InitFetch
  /\ lookup = None
  /\ pq = None
  /\ rd = None
  /\ inflight = <<>>
  /\ heap = <<>>

\* ------------------------------------------------------------------------
\* Registration
\* ------------------------------------------------------------------------
\* handlers.set(contract, fn), keyed by the contract's identity
HandlersSet(h, contract, fn) ==
  [id \in DOMAIN h \cup {contract.id} |->
     IF id = contract.id THEN fn ELSE h[id]]

\* App.register(handler) -> registerSingle
Register(handler) ==
  /\ pc = "setup"
  /\ Len(routes) < MaxAppRoutes
  /\ routes' = Router_register(routes, handler.contract)
  /\ handlers' = HandlersSet(handlers, handler.contract, handler.fn)
  /\ UNCHANGED <<middlewares, options, lookup, pq, rd, inflight, heap>>
  /\ UNCHANGED fetchVars

\* App.use(middleware)
Use(middleware) ==
  /\ pc = "setup"
  /\ Len(middlewares) < MaxMiddlewares
  /\ middlewares' = Append(middlewares, middleware)
  /\ UNCHANGED <<routes, handlers, options, lookup, pq, rd, inflight, heap>>
  /\ UNCHANGED fetchVars

\* ------------------------------------------------------------------------
\* App.fetch, one action per phase
\* ------------------------------------------------------------------------
\* The order in which fetch's code reaches the phases
phaseAfter_headersFirst(p) ==
  CASE p = "routing" -> "params"
    [] p = "params" -> "headers"
    [] p = "headers" -> "query"
    [] p = "query" -> "body"
    [] p = "body" -> "middleware"
    [] p = "middleware" -> "response_validation"

phaseAfter(p) ==
  CASE p = "routing" -> "params"
    [] p = "params" -> "query"
    [] p = "query" -> "headers"
    [] p = "headers" -> "body"
    [] p = "body" -> "middleware"
    [] p = "middleware" -> "response_validation"

\* The error code of each phase's early return
phaseCode_shifted(p) ==
  CASE p = "params" -> "INVALID_QUERY"
    [] p = "query" -> "INVALID_PARAMS"
    [] p = "headers" -> "INVALID_HEADERS"
    [] p = "body" -> "INVALID_BODY"
    [] p = "response_validation" -> "INVALID_RESPONSE"

phaseCode(p) ==
  CASE p = "params" -> "INVALID_PARAMS"
    [] p = "query" -> "INVALID_QUERY"
    [] p = "headers" -> "INVALID_HEADERS"
    [] p = "body" -> "INVALID_BODY"
    [] p = "response_validation" -> "INVALID_RESPONSE"

phaseMessage(p) ==
  CASE p = "params" -> "Invalid params"
    [] p = "query" -> "Invalid query"
    [] p = "headers" -> "Invalid headers"
    [] p = "body" -> "Invalid body"
    [] p = "response_validation" -> "Invalid response"

Logged(surface, calls) ==
  [i \in 1..Len(calls) |->
     [surface |-> surface, data |-> calls[i].data, result |-> calls[i].result]]

\* The hook log and the bodies as they are when an action starts
Now == [log |-> hookLog, io |-> io, propagates |-> FALSE]

\* What a configured hook may do; an absent hook is skipped
HooksOf(name) == IF options.hooks[name] THEN HookPrograms ELSE {Absent}

\* request.body is a stream for a method that carries a body
RequestHasBody(r) == r.urlValid /\ r.method # GET

ResponseTarget(resp) ==
  IF resp.origin.kind = "framework" THEN "framework" ELSE "chain"

ResponseHasBody(resp) ==
  IF resp.origin.kind = "framework" THEN TRUE ELSE resp.body.kind # "none"

\* trace.contract once the route is resolved
Traced(id) == [kind |-> "contract", id |-> id]

\* The mutation leaves onRequest out of the step that parses the URL
invokeRequestHook_skipped(program, r, st) == st

invokeRequestHook(program, r, st) ==
  invokeLifecycleHook("onRequest", program,
                      createHookRequestView(RequestHasBody(r)),
                      [contract |-> None], st)

\* createResponseEvent hands the hook a request view and a response view;
\* which names the one the hook works on
ResponseEventViews == {"request", "response"}

invokeResponseHook(program, which, r, contract, resp, st) ==
  invokeLifecycleHook("onResponse", program,
                      IF which = "request"
                      THEN createHookRequestView(RequestHasBody(r))
                      ELSE createHookResponseView(ResponseTarget(resp),
                                                  ResponseHasBody(resp)),
                      [contract |-> contract, response |-> resp], st)

\* The mutation reports the phase fetch starts in
invokeErrorHook_initialPhase(program, r, contract, error, ph, st) ==
  invokeLifecycleHook("onError", program,
                      createHookRequestView(RequestHasBody(r)),
                      [contract |-> contract, error |-> error,
                       phase |-> "routing"],
                      st)

invokeErrorHook(program, r, contract, error, ph, st) ==
  invokeLifecycleHook("onError", program,
                      createHookRequestView(RequestHasBody(r)),
                      [contract |-> contract, error |-> error, phase |-> ph],
                      st)

\* fetch settles: it resolves with resp, or rejects when resp is None
Settle(st, resp) ==
  /\ hookLog' = st.log
  /\ io' = st.io
  /\ response' = resp
  /\ pc' = IF resp = None THEN "rejected" ELSE "done"

\* The exceptions the runtime raises
TypeError(message) ==
  [class |-> "Error", status |-> Undefined, message |-> Str(message),
   code |-> Undefined, details |-> Undefined]

HookFailure == TypeError("hook failure")

\* What response.clone() raises on a body that was already read, and what
\* a custom adapter raises
BodyConsumed == TypeError("Body has already been consumed")
AdapterFailure == TypeError("adapter failure")

ValidationThrew(v) ==
  IF v.cause = "clone" THEN BodyConsumed ELSE AdapterFailure

\* fetch's catch block: onError, normalizeError, errorResponse, onResponse.
\* An exception inside the catch block makes fetch reject.
Catch(st, r, contract, error, ph) ==
  LET normalized == normalizeError(error)
      resp == errorResponse(Num(normalized.status, 0), normalized.message,
                            normalized.code, normalized.details)
  IN /\ caught' = [kind |-> "caught", error |-> error, phase |-> ph,
                   normalized |-> normalized]
     /\ \E pe \in HooksOf("onError"), pr \in HooksOf("onResponse"),
             which \in ResponseEventViews :
          LET s1 == invokeErrorHook(pe, r, contract, error, ph, st)
              s2 == invokeResponseHook(pr, which, r, contract, resp, s1)
          IN IF s1.propagates \/ ~Serializable(normalized.details)
             THEN Settle(s1, None)
             ELSE IF s2.propagates THEN Settle(s2, None)
             ELSE Settle(s2, resp)

Respond_withErrorHook(st, r, contract, resp, ph) ==
  \E pe \in HooksOf("onError"), pr \in HooksOf("onResponse"),
      which \in ResponseEventViews :
    LET s1 == invokeErrorHook(pe, r, contract, HookFailure, ph, st)
        s2 == invokeResponseHook(pr, which, r, contract, resp, s1)
    IN Settle(s2, resp) /\ UNCHANGED caught

\* await this.invokeResponseHook(trace, response); return response; inside
\* the try block
Respond(st, r, contract, resp, ph) ==
  \E pr \in HooksOf("onResponse"), which \in ResponseEventViews :
    LET s == invokeResponseHook(pr, which, r, contract, resp, st)
    IN IF s.propagates
       THEN Catch([s EXCEPT !.propagates = FALSE], r, contract, HookFailure, ph)
       ELSE Settle(s, resp) /\ UNCHANGED caught

\* The try block goes on to the next phase
Continue(st, next) ==
  /\ hookLog' = st.log
  /\ io' = st.io
  /\ pc' = next
  /\ UNCHANGED <<response, caught>>

\* fetch(request): new URL(request.url), the onRequest hook; what follows
\* is the route lookup, with phase = "routing"
Fetch(r) ==
  /\ pc = "setup"
  /\ request' = r
  /\ phase' = "routing"
  /\ entered' = <<"routing">>
  /\ IF ~r.urlValid
     THEN Catch(Now, r, None, TypeError("Invalid URL"), "routing")
     ELSE \E p \in HooksOf("onRequest") :
            LET s == invokeRequestHook(p, r, Now)
            IN IF s.propagates
               THEN Catch([s EXCEPT !.propagates = FALSE], r, None,
                          HookFailure, "routing")
               ELSE Continue(s, "routing")
  /\ UNCHANGED <<match, ctx, adapterLog, chain, invoked, nextCalled,
                 chainResponse, envSeen, validation, lookup, pq, rd,
                 inflight, heap>>
  /\ UNCHANGED appVars

\* What fetch does with found, the answer of router.find: handlers.get,
\* new Context
Routed(found) ==
  IF found.kind = "throw"
  THEN /\ Catch(Now, request, None, TypeError("URI malformed"), phase)
       /\ UNCHANGED <<match, ctx>>
  ELSE IF found.kind = "nomatch"
  THEN /\ Respond(Now, request, None,
                  errorResponse(Num(404, 0), "Not Found",
                                Code("ROUTE_NOT_FOUND"), NoDetails),
                  phase)
       /\ UNCHANGED <<match, ctx>>
  ELSE IF ~(found.contract.id \in DOMAIN handlers
            /\ handlers[found.contract.id] # "undefined")
  THEN /\ Respond(Now, request, Traced(found.contract.id),
                  errorResponse(Num(500, 0), "Handler not found",
                                Code("HANDLER_NOT_FOUND"), NoDetails),
                  phase)
       /\ match' = found
       /\ UNCHANGED ctx
  ELSE /\ match' = found
       /\ ctx' = NewContext
       /\ Continue(Now, phaseAfter("routing"))

\* router.find, handlers.get, new Context
Routing ==
  /\ pc = "routing"
  /\ Routed(Router_find(routes, request.method, request.pathname))
  /\ UNCHANGED <<request, phase, entered, adapterLog, chain, invoked,
                 nextCalled, chainResponse, envSeen, validation, lookup, pq, rd,
                 inflight, heap>>
  /\ UNCHANGED appVars

Validated_noReturn(p, surface, out, st) ==
  /\ adapterLog' = adapterLog \o Logged(surface, out.calls)
  /\ ctx' = IF out.result.success
            THEN [ctx EXCEPT ![surface] = out.result.data]
            ELSE ctx
  /\ Continue(st, phaseAfter(p))

\* A phase that ran the adapter: on success the data goes onto the Context
\* and fetch moves on, on failure fetch returns the phase's 400; an
\* exception of the adapter goes to fetch's catch block
Validated(p, surface, out, st) ==
  /\ adapterLog' = adapterLog \o Logged(surface, out.calls)
  /\ IF Raised(out.result)
     THEN /\ Catch(st, request, Traced(match.contract.id), AdapterFailure, p)
          /\ UNCHANGED ctx
     ELSE IF out.result.success
     THEN /\ ctx' = [ctx EXCEPT ![surface] = out.result.data]
          /\ Continue(st, phaseAfter(p))
     ELSE /\ Respond(st, request, Traced(match.contract.id),
                     errorResponse(Num(400, 0), phaseMessage(p),
                                   Code(phaseCode(p)),
                                   Details(out.result.error)), p)
          /\ UNCHANGED ctx

ParamsValue(params) == Obj([k \in DOMAIN params |-> Str(params[k])])

parseParams(validator, schema, params) ==
  LET result == Validator_parse(validator, schema, ParamsValue(params))
  IN [result |-> result,
      calls |-> <<[data |-> ParamsValue(params), result |-> result]>>]

parseHeaders(validator, schema, headers) ==
  LET result == Validator_parse(validator, schema, headers)
  IN [result |-> result, calls |-> <<[data |-> headers, result |-> result]>>]

ParamsPhase ==
  /\ pc = "params"
  /\ phase' = "params"
  /\ entered' = Append(entered, "params")
  /\ IF match.contract.params.kind # "none"
     THEN Validated("params", "params",
                    parseParams(options.validator, match.contract.params,
                                match.params), Now)
     ELSE /\ ctx' = [ctx EXCEPT !.params = ParamsValue(match.params)]
          /\ Continue(Now, phaseAfter("params"))
          /\ UNCHANGED adapterLog
  /\ UNCHANGED <<request, match, chain, invoked, nextCalled, chainResponse,
                 envSeen, validation, lookup, pq, rd, inflight, heap>>
  /\ UNCHANGED appVars

QueryPhase ==
  /\ pc = "query"
  /\ phase' = "query"
  /\ entered' = Append(entered, "query")
  /\ IF match.contract.query.kind # "none"
     THEN Validated("query", "query",
                    parseQuery(options.validator, match.contract.query,
                               request.searchParams), Now)
     ELSE /\ ctx' = [ctx EXCEPT !.query =
                        fromEntries(request.searchParams, 1, <<>>)]
          /\ Continue(Now, phaseAfter("query"))
          /\ UNCHANGED adapterLog
  /\ UNCHANGED <<request, match, chain, invoked, nextCalled, chainResponse,
                 envSeen, validation, lookup, pq, rd, inflight, heap>>
  /\ UNCHANGED appVars

HeadersPhase ==
  /\ pc = "headers"
  /\ phase' = "headers"
  /\ entered' = Append(entered, "headers")
  /\ IF match.contract.headers.kind # "none"
     THEN Validated("headers", "headers",
                    parseHeaders(options.validator, match.contract.headers,
                                 request.headers), Now)
     ELSE /\ Continue(Now, phaseAfter("headers"))
          /\ UNCHANGED <<ctx, adapterLog>>
  /\ UNCHANGED <<request, match, chain, invoked, nextCalled, chainResponse,
                 envSeen, validation, lookup, pq, rd, inflight, heap>>
  /\ UNCHANGED appVars

\* What parseBody did to the request's body
AfterParseBody(st, out) ==
  [st EXCEPT !.io.used = IF out.consumed THEN @ \cup {"request"} ELSE @,
             !.io.clones.request = @ + out.clones]

\* What fetch does with out, the outcome of parseBody
BodyRead(out) ==
  IF out.threw
  THEN /\ Catch(AfterParseBody(Now, out), request, Traced(match.contract.id),
                TypeError("Body is unusable"), "body")
       /\ UNCHANGED <<ctx, adapterLog>>
  ELSE Validated("body", "body", out, AfterParseBody(Now, out))

BodyPhase ==
  /\ pc = "body"
  /\ phase' = "body"
  /\ entered' = Append(entered, "body")
  /\ IF match.contract.body.kind # "none" /\ MethodCarriesBody(request.method)
     THEN BodyRead(parseBody(options.validator, match.contract.body, request,
                            "request" \in io.used))
     ELSE /\ Continue(Now, phaseAfter("body"))
          /\ UNCHANGED <<ctx, adapterLog>>
  /\ UNCHANGED <<request, match, chain, invoked, nextCalled, chainResponse,
                 envSeen, validation, lookup, pq, rd, inflight, heap>>
  /\ UNCHANGED appVars

\* phase = "middleware"; executeMiddleware(0) is about to be called
MiddlewarePhase ==
  /\ pc = "middleware"
  /\ chain.mode = "idle"
  /\ phase' = "middleware"
  /\ entered' = Append(entered, "middleware")
  /\ chain' = [mode |-> "call", index |-> 0, stack |-> <<>>, ret |-> None,
               held |-> <<>>]
  /\ UNCHANGED <<pc, request, match, ctx, adapterLog, invoked, nextCalled,
                 chainResponse, envSeen, validation, response, hookLog, io,
                 caught, lookup, pq, rd, inflight, heap>>
  /\ UNCHANGED appVars

\* The index next() continues the chain at
nextIndex_skipOne(index) == index + 2

nextIndex(index) == index + 1

\* What the code invoked in the chain does: it throws, or it returns
Throws(origin, kind) ==
  IF origin.kind = "handler" THEN kind = "throws" ELSE kind = "throw"

\* held, the responses a middleware got from its calls of next, without
\* the entry of index i: the middleware is invoked anew
Released(held, i) == [j \in DOMAIN held \ {i} |-> held[j]]

\* The middleware added by App.use while a fetch was in flight
LateKinds == {"lateBeforeHandler", "lateAfterHandler"}

chainList_snapshot(list) == SelectSeq(list, LAMBDA m : m \notin LateKinds)

\* The list executeMiddleware works on: this.middlewares as it is when
\* the step runs
chainList(list) == list

\* executeMiddleware(index): the handler past the end of the list, else
\* the middleware at index, which either returns a response of its own or
\* calls next, that is executeMiddleware(index + 1); an "await" middleware
\* awaits something else before it calls next.  An exception of the
\* handler or of a middleware leaves the chain and reaches fetch's catch.
ExecuteMiddleware ==
  /\ pc = "middleware"
  /\ chain.mode = "call"
  /\ LET atHandler == chain.index >= Len(chainList(middlewares))
         origin == IF atHandler THEN InvokedHandler
                   ELSE InvokedMiddleware(chain.index)
         kind == IF atHandler THEN handlers[match.contract.id]
                 ELSE chainList(middlewares)[chain.index + 1]
     IN /\ invoked' = Append(invoked, origin)
        /\ IF Throws(origin, kind)
           THEN /\ \E e \in ThrownValues :
                     Catch(Now, request, Traced(match.contract.id), e, phase)
                /\ chain' = [chain EXCEPT !.mode = "thrown"]
                /\ UNCHANGED nextCalled
           ELSE /\ IF atHandler
                   THEN /\ \E r \in HandlerResponses(kind) :
                             chain' = [chain EXCEPT !.mode = "return",
                                                    !.ret = r]
                        /\ UNCHANGED nextCalled
                   ELSE IF kind = "short"
                   THEN /\ \E r \in MiddlewareResponsesOf(origin) :
                             chain' = [chain EXCEPT !.mode = "return",
                                                    !.ret = r]
                        /\ UNCHANGED nextCalled
                   ELSE IF kind = "await"
                   THEN /\ chain' = [chain EXCEPT !.mode = "suspended"]
                        /\ UNCHANGED nextCalled
                   ELSE /\ nextCalled' = nextCalled \cup {chain.index}
                        /\ chain' = [chain EXCEPT
                                       !.index = nextIndex(chain.index),
                                       !.stack = Append(chain.stack,
                                                        chain.index),
                                       !.held = Released(@, chain.index)]
                /\ UNCHANGED <<pc, response, hookLog, io, caught>>
  /\ UNCHANGED <<request, phase, entered, match, ctx, adapterLog,
                 chainResponse, envSeen, validation, lookup, pq, rd,
                 inflight, heap>>
  /\ UNCHANGED appVars

\* The await of a suspended middleware settles: it calls next
MiddlewareContinue ==
  /\ pc = "middleware"
  /\ chain.mode = "suspended"
  /\ nextCalled' = nextCalled \cup {chain.index}
  /\ chain' = [chain EXCEPT !.mode = "call",
                            !.index = nextIndex(chain.index),
                            !.stack = Append(chain.stack, chain.index),
                            !.held = Released(@, chain.index)]
  /\ UNCHANGED <<pc, request, phase, entered, match, ctx, adapterLog, invoked,
                 chainResponse, envSeen, validation, response, hookLog, io,
                 caught, lookup, pq, rd, inflight, heap>>
  /\ UNCHANGED appVars

\* App.use(middleware) called by other code while the fetch is suspended
\* at an await inside the chain: in a middleware that has not called next
\* yet, or in code that awaits the response of next or of the handler.
\* The kind of the added middleware records whether the handler had been
\* invoked by then; it passes the request on like "pass".
UseInFlight ==
  /\ pc = "middleware"
  /\ chain.mode \in {"suspended", "return"}
  /\ Cardinality({j \in DOMAIN middlewares : middlewares[j] \in LateKinds})
       < MaxLateUses
  /\ middlewares' = Append(middlewares,
                           IF \E n \in DOMAIN invoked :
                                invoked[n] = InvokedHandler
                           THEN "lateAfterHandler" ELSE "lateBeforeHandler")
  /\ UNCHANGED <<routes, handlers, options, lookup, pq, rd, inflight, heap>>
  /\ UNCHANGED fetchVars

repeatedNext_guarded(index) == [kind |-> "settled"]

\* A further call of the next thunk a middleware was handed,
\* () => executeMiddleware(index + 1): the chain is entered again
repeatedNext(index) == [kind |-> "call", index |-> nextIndex(index)]

\* the promise of next() settles inside the innermost awaiting middleware,
\* which returns that response or one of its own; a "twice" middleware
\* holds the response of its first call, calls next again, and returns
\* either of the two responses
MiddlewareResume ==
  /\ pc = "middleware"
  /\ chain.mode = "return"
  /\ Len(chain.stack) > 0
  /\ LET i == chain.stack[Len(chain.stack)]
         rest == SubSeq(chain.stack, 1, Len(chain.stack) - 1)
     IN IF middlewares[i + 1] = "replace"
        THEN \E r \in MiddlewareResponsesOf(InvokedMiddleware(i)) :
               chain' = [chain EXCEPT !.stack = rest, !.ret = r]
        ELSE IF middlewares[i + 1] = "twice"
        THEN IF i \notin DOMAIN chain.held
             THEN IF repeatedNext(i).kind = "call"
                  THEN chain' = [chain EXCEPT
                                   !.mode = "call",
                                   !.index = repeatedNext(i).index,
                                   !.held = (i :> <<chain.ret>>) @@ @]
                  ELSE chain' = [chain EXCEPT !.stack = rest]
             ELSE \E r \in {chain.held[i][1], chain.ret} :
                    chain' = [chain EXCEPT
                                !.stack = rest, !.ret = r,
                                !.held[i] = Append(@, chain.ret)]
        ELSE chain' = [chain EXCEPT !.stack = rest]
  /\ UNCHANGED <<pc, request, phase, entered, match, ctx, adapterLog, invoked,
                 nextCalled, chainResponse, envSeen, validation, response,
                 hookLog, io, caught, lookup, pq, rd, inflight, heap>>
  /\ UNCHANGED appVars

\* await executeMiddleware(0) settles
ChainReturn ==
  /\ pc = "middleware"
  /\ chain.mode = "return"
  /\ Len(chain.stack) = 0
  /\ chainResponse' = chain.ret
  /\ pc' = phaseAfter("middleware")
  /\ UNCHANGED <<request, phase, entered, match, ctx, adapterLog, chain,
                 invoked, nextCalled, envSeen, validation, response, hookLog,
                 io, caught, lookup, pq, rd, inflight, heap>>
  /\ UNCHANGED appVars

DefaultEnv == [node |-> NoEnv, bun |-> NoEnv, deno |-> NoEnv]

\* What validateResponse did to the response's body
AfterValidateResponse(st, v) ==
  [st EXCEPT !.io.used = IF v.read = "original" THEN @ \cup {"chain"} ELSE @,
             !.io.clones.response = IF v.read = "clone" THEN @ + 1 ELSE @]

\* What fetch does with v, the verdict of validateResponse.  A read that
\* never settles leaves fetch waiting in validateResponse.
ResponseValidated(v) ==
  /\ validation' = v
  /\ adapterLog' = adapterLog \o Logged("response", v.calls)
  /\ IF v.kind = "pending"
     THEN Continue(AfterValidateResponse(Now, v), "reading")
     ELSE IF v.kind = "threw"
     THEN Catch(AfterValidateResponse(Now, v), request,
                Traced(match.contract.id), ValidationThrew(v),
                "response_validation")
     ELSE IF ~v.success
     THEN Respond(AfterValidateResponse(Now, v), request,
                  Traced(match.contract.id),
                  errorResponse(Num(500, 0),
                                phaseMessage("response_validation"),
                                Code(phaseCode("response_validation")),
                                Details(v.error)),
                  "response_validation")
     ELSE Respond(AfterValidateResponse(Now, v), request,
                  Traced(match.contract.id), chainResponse,
                  "response_validation")

\* phase = "response_validation"; validateResponse; return
ResponseValidationWith(env) ==
  ResponseValidated(validateResponse(options.validator,
                                     options.responseValidation, env,
                                     match.contract, chainResponse))

ResponseValidationPhase ==
  /\ pc = "response_validation"
  /\ phase' = "response_validation"
  /\ entered' = Append(entered, "response_validation")
  /\ IF options.responseValidation = "development"
     THEN \E env \in RuntimeEnvs :
            /\ envSeen' = env
            /\ ResponseValidationWith(env)
     ELSE /\ UNCHANGED envSeen
          /\ ResponseValidationWith(DefaultEnv)
  /\ UNCHANGED <<request, match, ctx, chain, invoked, nextCalled,
                 chainResponse, lookup, pq, rd, inflight, heap>>
  /\ UNCHANGED appVars

Next ==
  \/ \E h \in AppHandlers : Register(h)
  \/ \E m \in MiddlewareKinds : Use(m)
  \/ \E r \in Requests : Fetch(r)
  \/ Routing
  \/ ParamsPhase
  \/ QueryPhase
  \/ HeadersPhase
  \/ BodyPhase
  \/ MiddlewarePhase
  \/ ExecuteMiddleware
  \/ MiddlewareResume
  \/ ChainReturn
  \/ ResponseValidationPhase

Spec == Init /\ [][Next]_vars

\* ------------------------------------------------------------------------
\* Router specification: register and find on a Router of its own
\* ------------------------------------------------------------------------
InitRouter ==
  /\ InitApp
  /\ options = [responseValidation |-> "development", validator |-> "zod"]
  /\ InitFetch
  /\ lookup = None
  /\ pq = None
  /\ rd = None
  /\ inflight = <<>>
  /\ heap = <<>>

RouterRegister(contract) ==
  /\ Len(routes) < MaxRoutes
  /\ routes' = Router_register(routes, contract)
  /\ lookup' = None
  /\ UNCHANGED <<handlers, middlewares, options, pq, rd, inflight, heap>>
  /\ UNCHANGED fetchVars

RouterFind(method, pathname) ==
  /\ lookup' = [kind |-> "find", method |-> method, pathname |-> pathname,
                result |-> Router_find(routes, method, pathname)]
  /\ UNCHANGED <<routes, handlers, middlewares, options, pq, rd, inflight,
                 heap>>
  /\ UNCHANGED fetchVars

NextRouter ==
  \/ \E c \in RouterContracts : RouterRegister(c)
  \/ \E m \in {GET, POST}, p \in Pathnames : RouterFind(m, p)

SpecRouter == InitRouter /\ [][NextRouter]_vars

\* ------------------------------------------------------------------------
\* Query specification: parseQuery on query strings of up to MaxQueryLen
\* entries
\* ------------------------------------------------------------------------
MaxQueryLen == 3

QueryValues ==
  {<<"1","2","3">>, <<"2">>, <<"t","r","u","e">>, <<"x">>,
   <<"1",".","5","0">>, <<"0","0","7">>}

QueryEntries == [key : {"id", "page"}, value : QueryValues]

SearchParams == UNION {[1..n -> QueryEntries] : n \in 0..MaxQueryLen}

QuerySchemas ==
  {QuerySchema,
   ObjectSchema(<<Field("id", "string")>>),
   ObjectSchema(<<[key |-> "expand", type |-> "boolean", opt |-> TRUE],
                  [key |-> "page", type |-> "number", opt |-> TRUE]>>)}

\* The call about to be made: its arguments
InitQuery ==
  /\ InitApp
  /\ options = [responseValidation |-> "development", validator |-> "zod"]
  /\ InitFetch
  /\ lookup = None
  /\ pq \in [kind : {"call"}, validator : {"zod", "noPaths"},
             schema : QuerySchemas, searchParams : SearchParams]
  /\ rd = None
  /\ inflight = <<>>
  /\ heap = <<>>

ParseQueryCall ==
  /\ pq.kind = "call"
  /\ pq' = [kind |-> "parseQuery", validator |-> pq.validator,
            schema |-> pq.schema, searchParams |-> pq.searchParams,
            out |-> parseQuery(pq.validator, pq.schema, pq.searchParams)]
  /\ UNCHANGED <<routes, handlers, middlewares, options, lookup, inflight,
                 heap, rd>>
  /\ UNCHANGED fetchVars

NextQuery == ParseQueryCall

SpecQuery == InitQuery /\ [][NextQuery]_vars

\* ------------------------------------------------------------------------
\* Response specification: one handler that streams, no hooks, no
\* middleware; every response of StreamResponses under every mode
\* ------------------------------------------------------------------------
StreamHandlers ==
  {[contract |-> Contract("getStream", GET, PathUserId, NoSchema, NoSchema,
                          NoSchema, NoSchema,
                          [st \in {200, 201} |->
                             IF st = 200 THEN UserSchema ELSE BodySchema]),
    fn |-> "stream"],
   [contract |-> BareContract("getStreamBare", GET, PathUserId),
    fn |-> "stream"]}

StreamRequest ==
  [urlValid |-> TRUE, method |-> GET, pathname |-> <<"/","u","/","7">>,
   searchParams |-> QueryGood, headers |-> HeadersGood, body |-> BodyGood]

\* The App after register(handler)
Registered(handler) ==
  /\ routes = Router_register(<<>>, handler.contract)
  /\ handlers = HandlersSet(<<>>, handler.contract, handler.fn)
  /\ middlewares = <<>>

InitResponse ==
  /\ \E h \in StreamHandlers : Registered(h)
  /\ options \in [responseValidation : {"off", "development", "always"},
                  validator : {"zod"}, hooks : {NoHooks}]
  /\ InitFetch
  /\ lookup = None
  /\ pq = None
  /\ rd = None
  /\ inflight = <<>>
  /\ heap = <<>>

NextResponse ==
  \/ Fetch(StreamRequest)
  \/ Routing
  \/ ParamsPhase
  \/ QueryPhase
  \/ HeadersPhase
  \/ BodyPhase
  \/ MiddlewarePhase
  \/ ExecuteMiddleware
  \/ ChainReturn
  \/ ResponseValidationPhase

SpecResponse == InitResponse /\ [][NextResponse]_vars

\* The event loop runs the continuation of fetch once validateResponse can
\* be entered: the phase is not postponed forever
SpecResponseLive == SpecResponse /\ WF_vars(ResponseValidationPhase)

\* ------------------------------------------------------------------------
\* Hooks specification: one handler, any subset of the three hooks, each
\* running any of HookPrograms
\* ------------------------------------------------------------------------
HookHandlers ==
  {[contract |-> FullContract("postUser", POST, PathUserId), fn |-> "json"],
   [contract |-> FullContract("postThrows", POST, PathUserId),
    fn |-> "throws"]}

\* A text/plain body that parses as JSON: the fallback branch of parseBody
BodyFallback ==
  [contentType |-> "text/plain",
   text |-> <<"{","\"","n","a","m","e","\"",":","\"","A","\"","}">>,
   json |-> [ok |-> TRUE, value |-> Obj([k \in {"name"} |-> Str(<<"A">>)])],
   form |-> <<>>, multipartOk |-> FALSE]

HookRequest(urlValid, method, body) ==
  [urlValid |-> urlValid, method |-> method,
   pathname |-> <<"/","u","/","7">>, searchParams |-> QueryGood,
   headers |-> HeadersGood, body |-> body]

HookRequests ==
  {HookRequest(TRUE, POST, BodyGood),
   HookRequest(TRUE, POST, BodyBad),
   HookRequest(TRUE, POST, BodyFallback),
   HookRequest(TRUE, GET, BodyGood),
   HookRequest(FALSE, GET, BodyGood)}

InitHooks ==
  /\ \E h \in HookHandlers : Registered(h)
  /\ options \in [responseValidation : {"always"}, validator : {"zod"},
                  hooks : [onRequest : BOOLEAN, onResponse : BOOLEAN,
                           onError : BOOLEAN]]
  /\ InitFetch
  /\ lookup = None
  /\ pq = None
  /\ rd = None
  /\ inflight = <<>>
  /\ heap = <<>>

NextHooks ==
  \/ \E r \in HookRequests : Fetch(r)
  \/ Routing
  \/ ParamsPhase
  \/ QueryPhase
  \/ HeadersPhase
  \/ BodyPhase
  \/ MiddlewarePhase
  \/ ExecuteMiddleware
  \/ ChainReturn
  \/ ResponseValidationPhase

SpecHooks == InitHooks /\ [][NextHooks]_vars

\* ------------------------------------------------------------------------
\* Concurrent specification: several App.fetch calls in flight on one App.
\* A call runs from one await to the next without interruption; between
\* two awaits of one call any other call may run.
\* ------------------------------------------------------------------------
MaxCalls == 2

\* String.prototype.trim, for the blank the cookie header puts after ";"
RECURSIVE TrimStart(_)
TrimStart(s) ==
  IF Len(s) > 0 /\ s[1] = " " THEN TrimStart(Tail(s)) ELSE s

RECURSIVE TrimEnd(_)
TrimEnd(s) ==
  IF Len(s) > 0 /\ s[Len(s)] = " "
  THEN TrimEnd(SubSeq(s, 1, Len(s) - 1)) ELSE s

Trim(s) == TrimEnd(TrimStart(s))

\* encodeURIComponent over the characters the modelled cookies hold:
\* letters and digits are kept, the others are percent-encoded
EncodeChar(c) ==
  CASE c = " " -> <<"%","2","0">>
    [] c = "%" -> <<"%","2","5">>
    [] c = "/" -> <<"%","2","F">>
    [] c = ":" -> <<"%","3","A">>
    [] c = ";" -> <<"%","3","B">>
    [] c = "=" -> <<"%","3","D">>
    [] OTHER -> <<c>>

RECURSIVE encodeURIComponent(_)
encodeURIComponent(s) ==
  IF Len(s) = 0 THEN <<>>
  ELSE EncodeChar(s[1]) \o encodeURIComponent(Tail(s))

\* Map.get, with what the caller substitutes for undefined
MapGet(m, key, missing) ==
  IF \E i \in 1..Len(m) : m[i].key = key
  THEN m[CHOOSE i \in 1..Len(m) : m[i].key = key].value
  ELSE missing

\* Context.parseCookies: name=value pairs split at ";", the value decoded
\* and kept raw when decoding raises; an absent or empty header is <<>>
RECURSIVE parseCookiesFrom(_, _, _)
parseCookiesFrom(parts, i, cookies) ==
  IF i > Len(parts) THEN cookies
  ELSE LET pieces == Split(Trim(parts[i]), "=")
           name == pieces[1]
           value == Join(Tail(pieces), "=")
           decoded == decodeURIComponent(value)
       IN parseCookiesFrom(parts, i + 1,
            IF name = <<>> THEN cookies
            ELSE MapSet(cookies, name,
                        IF decoded.ok THEN decoded.s ELSE value))

parseCookies(cookieHeader) ==
  IF cookieHeader = <<>> THEN <<>>
  ELSE parseCookiesFrom(Split(cookieHeader, ";"), 1, <<>>)

\* new Context(request, contract): the field initialisers, then
\* parseCookies
Context_new(r, contract) ==
  [request |-> r, contract |-> contract.id,
   params |-> NewContext.params, query |-> NewContext.query,
   headers |-> NewContext.headers, body |-> NewContext.body,
   cookies |-> parseCookies(r.cookie),
   responseCookies |-> <<>>, responseHeaders |-> <<>>]

\* Context.setHeader, Context.setCookie (without options)
setHeader(c, name, value) ==
  [c EXCEPT !.responseHeaders = MapSet(@, name, value)]

setCookie(c, name, value) ==
  [c EXCEPT !.responseCookies = MapSet(@, name, [value |-> value])]

\* Context.addCookiesToHeaders: one set-cookie line per queued cookie
addCookiesToHeaders(c) ==
  [i \in 1..Len(c.responseCookies) |->
     c.responseCookies[i].key \o <<"=">>
       \o encodeURIComponent(c.responseCookies[i].value.value)]

\* Context.json(status, data)
Context_json(c, status, data) ==
  [origin |-> [kind |-> "handler", index |-> -1], status |-> status,
   headers |-> MapSet(c.responseHeaders, "content-type", "application/json"),
   setCookie |-> addCookiesToHeaders(c), body |-> data]

\* The object new creates is one no other reference names; the mutation
\* keeps a single instance for the whole App
Allocate_shared(h, object) ==
  IF h = <<>> THEN [heap |-> <<object>>, ref |-> 1]
  ELSE [heap |-> [h EXCEPT ![1] = object], ref |-> 1]

Allocate(h, object) == [heap |-> Append(h, object), ref |-> Len(h) + 1]

\* A property of a JS object, undefined when absent
Prop(obj, key) ==
  IF obj.t = "obj" /\ key \in DOMAIN obj.o THEN obj.o[key] ELSE Undefined

TextOf(v) == IF v.t = "str" THEN v.s ELSE <<>>

\* The handler and the middleware of this specification.  The handler
\* reads its Context, queues a header and a cookie taken from it, awaits,
\* queues a second cookie and answers with ctx.json; the middleware reads
\* its Context before and after next().
HandlerEnters(c) ==
  setCookie(setHeader(c, "x-user", TextOf(Prop(c.params, ParamId))),
            <<"s","i","d">>, MapGet(c.cookies, <<"s">>, <<>>))

HandlerResumes(c) ==
  setCookie(c, <<"n","a","m","e">>, TextOf(Prop(c.body, "name")))

HandlerAnswers(c) == Context_json(c, 200, c.params)

\* Requests of the concurrent specification
ConcurrentContract == FullContract("postUser", POST, PathUserId)

QueryOther == <<Entry("id", <<"9">>), Entry("page", <<"3">>)>>
HeadersOther == Obj([k \in {"x-api-key"} |-> Str(<<"j">>)])
BodyOther ==
  JsonBody(<<"{","\"","n","a","m","e","\"",":","\"","B","\"","}">>, TRUE,
           Obj([k \in {"name"} |-> Str(<<"B"," ","C">>)]))

ConcurrentRequest(pathname, searchParams, headers, body, cookie) ==
  [urlValid |-> TRUE, method |-> POST, pathname |-> pathname,
   searchParams |-> searchParams, headers |-> headers, body |-> body,
   cookie |-> cookie]

ConcurrentRequests ==
  {ConcurrentRequest(<<"/","u","/","7">>, QueryGood, HeadersGood, BodyGood,
                     <<"s","=","a">>),
   ConcurrentRequest(<<"/","u","/","8">>, QueryOther, HeadersOther,
                     BodyOther,
                     <<"s","=","b","%","2","0","c",";"," ","t","=","%">>),
   ConcurrentRequest(<<"/","u","/","8">>, QueryBad, HeadersGood, BodyGood,
                     <<>>),
   ConcurrentRequest(<<"/","u","/","7">>, QueryGood, HeadersGood,
                     BodyMalformed, <<>>)}

NewCall(r) ==
  [pc |-> "onRequest", request |-> r, ctx |-> 0, seen |-> <<>>,
   response |-> None]

InitConcurrent ==
  /\ routes = Router_register(<<>>, ConcurrentContract)
  /\ handlers = HandlersSet(<<>>, ConcurrentContract, "json")
  /\ middlewares \in {<<>>, <<"pass">>}
  /\ options = [responseValidation |-> "off", validator |-> "zod",
                hooks |-> NoHooks]
  /\ InitFetch
  /\ lookup = None
  /\ pq = None
  /\ rd = None
  /\ inflight = <<>>
  /\ heap = <<>>

\* fetch(request): new URL, then the await of invokeRequestHook
Call(r) ==
  /\ Len(inflight) < MaxCalls
  /\ inflight' = Append(inflight, NewCall(r))
  /\ UNCHANGED <<heap, lookup, pq, rd>>
  /\ UNCHANGED appVars
  /\ UNCHANGED fetchVars

\* A call that answers with resp awaits invokeResponseHook
Answer(i, resp) ==
  inflight' = [inflight EXCEPT ![i].pc = "responding", ![i].response = resp]

Invalid(p, result) ==
  errorResponse(Num(400, 0), phaseMessage(p), Code(phaseCode(p)),
                Details(result.error))

\* What fetch does after router.find answered found, handlers.get found a
\* handler and new Context gave alloc: params, query and headers, up to
\* the await of parseBody
Prepared(i, found, alloc, pr, qr, hr) ==
  LET contract == found.contract
      c0 == alloc.heap[alloc.ref]
      c1 == [c0 EXCEPT !.params =
               IF contract.params.kind = "none"
               THEN ParamsValue(found.params) ELSE pr.data]
      c2 == [c1 EXCEPT !.query =
               IF contract.query.kind = "none"
               THEN fromEntries(inflight[i].request.searchParams, 1, <<>>)
               ELSE qr.data]
      c3 == IF contract.headers.kind = "none" THEN c2
            ELSE [c2 EXCEPT !.headers = hr.data]
      store(c) == [alloc.heap EXCEPT ![alloc.ref] = c]
  IN IF contract.params.kind # "none" /\ ~pr.success
     THEN Answer(i, Invalid("params", pr)) /\ heap' = alloc.heap
     ELSE IF contract.query.kind # "none" /\ ~qr.success
     THEN Answer(i, Invalid("query", qr)) /\ heap' = store(c1)
     ELSE IF contract.headers.kind # "none" /\ ~hr.success
     THEN Answer(i, Invalid("headers", hr)) /\ heap' = store(c2)
     ELSE /\ heap' = store(c3)
          /\ inflight' = [inflight EXCEPT ![i].pc = "parseBody",
                                          ![i].ctx = alloc.ref]

Found(i, found) ==
  IF found.kind = "nomatch"
  THEN /\ Answer(i, errorResponse(Num(404, 0), "Not Found",
                                  Code("NOT_FOUND"),
                                  NoDetails))
       /\ UNCHANGED heap
  ELSE IF found.contract.id \notin DOMAIN handlers
          \/ handlers[found.contract.id] = "undefined"
  THEN /\ Answer(i, errorResponse(Num(500, 0), "Handler not found",
                                  Code("HANDLER_NOT_FOUND"), NoDetails))
       /\ UNCHANGED heap
  ELSE Prepared(i, found,
                Allocate(heap, Context_new(inflight[i].request,
                                           found.contract)),
                parseParams(options.validator, found.contract.params,
                            found.params).result,
                parseQuery(options.validator, found.contract.query,
                           inflight[i].request.searchParams).result,
                parseHeaders(options.validator, found.contract.headers,
                             inflight[i].request.headers).result)

\* invokeRequestHook settled: router.find up to the await of parseBody
Prepare(i) ==
  /\ i \in DOMAIN inflight
  /\ inflight[i].pc = "onRequest"
  /\ Found(i, Router_find(routes, inflight[i].request.method,
                          inflight[i].request.pathname))
  /\ UNCHANGED <<lookup, pq, rd>>
  /\ UNCHANGED appVars
  /\ UNCHANGED fetchVars

\* The chain down to the handler's first await: every middleware reads
\* its Context and calls next, the handler reads and writes its Context
EnteredChain(i, c) ==
  /\ heap' = [heap EXCEPT ![inflight[i].ctx] = HandlerEnters(c)]
  /\ inflight' = [inflight EXCEPT
       ![i].pc = "handler",
       ![i].seen = @ \o [k \in 1..(Len(middlewares) + 1) |-> c]]

\* parseBody settled with out: ctx.body, then executeMiddleware(0)
BodySettled(i, out) ==
  IF out.result.success
  THEN EnteredChain(i, [heap[inflight[i].ctx] EXCEPT
                          !.body = out.result.data])
  ELSE Answer(i, Invalid("body", out.result)) /\ UNCHANGED heap

EnterChain(i) ==
  /\ i \in DOMAIN inflight
  /\ inflight[i].pc = "parseBody"
  /\ BodySettled(i, parseBody(options.validator, ConcurrentContract.body,
                              inflight[i].request, FALSE))
  /\ UNCHANGED <<lookup, pq, rd>>
  /\ UNCHANGED appVars
  /\ UNCHANGED fetchVars

\* The handler's await settled: it writes, reads and answers
HandlerReturned(i, c) ==
  /\ heap' = [heap EXCEPT ![inflight[i].ctx] = c]
  /\ inflight' = [inflight EXCEPT
       ![i].pc = IF Len(middlewares) > 0 THEN "unwinding" ELSE "responding",
       ![i].seen = Append(@, c),
       ![i].response = HandlerAnswers(c)]

HandlerReturn(i) ==
  /\ i \in DOMAIN inflight
  /\ inflight[i].pc = "handler"
  /\ HandlerReturned(i, HandlerResumes(heap[inflight[i].ctx]))
  /\ UNCHANGED <<lookup, pq, rd>>
  /\ UNCHANGED appVars
  /\ UNCHANGED fetchVars

\* next() settled in the middleware: it reads its Context again and
\* returns the response; fetch then awaits invokeResponseHook
Unwind(i) ==
  /\ i \in DOMAIN inflight
  /\ inflight[i].pc = "unwinding"
  /\ inflight' = [inflight EXCEPT
       ![i].pc = "responding",
       ![i].seen = Append(@, heap[inflight[i].ctx])]
  /\ UNCHANGED <<heap, lookup, pq, rd>>
  /\ UNCHANGED appVars
  /\ UNCHANGED fetchVars

\* invokeResponseHook settled: fetch returns the response
Finish(i) ==
  /\ i \in DOMAIN inflight
  /\ inflight[i].pc = "responding"
  /\ inflight' = [inflight EXCEPT ![i].pc = "done"]
  /\ UNCHANGED <<heap, lookup, pq, rd>>
  /\ UNCHANGED appVars
  /\ UNCHANGED fetchVars

NextConcurrent ==
  \/ \E r \in ConcurrentRequests : Call(r)
  \/ \E i \in 1..MaxCalls : Prepare(i)
  \/ \E i \in 1..MaxCalls : EnterChain(i)
  \/ \E i \in 1..MaxCalls : HandlerReturn(i)
  \/ \E i \in 1..MaxCalls : Unwind(i)
  \/ \E i \in 1..MaxCalls : Finish(i)

SpecConcurrent == InitConcurrent /\ [][NextConcurrent]_vars

\* ------------------------------------------------------------------------
\* Registration specification: contracts registered over one another on
\* the same method and path, then one fetch.  lookup keeps, per route
\* key, the handler most recently registered under it.
\* ------------------------------------------------------------------------
RegisterHandlers ==
  [contract : {BareContract("first", GET, PathUserId),
               BareContract("second", GET, PathUserId),
               BareContract("me", GET, PathUserMe)},
   fn : {"json", "throws"}]

RegisterRequests ==
  {r \in Requests :
     /\ r.pathname \in {<<"/","u","/","7">>, <<"/","u","/","m","e">>}
     /\ r.searchParams = QueryGood
     /\ r.headers = HeadersGood
     /\ r.body = BodyGood}

InitRegister ==
  /\ InitApp
  /\ options = [responseValidation |-> "off", validator |-> "zod",
                hooks |-> NoHooks]
  /\ InitFetch
  /\ lookup = [kind |-> "registered", latest |-> <<>>]
  /\ pq = None
  /\ rd = None
  /\ inflight = <<>>
  /\ heap = <<>>

\* App.register(handler) -> registerSingle, any number of times
AppRegister(handler) ==
  /\ pc = "setup"
  /\ routes' = Router_register(routes, handler.contract)
  /\ handlers' = HandlersSet(handlers, handler.contract, handler.fn)
  /\ lookup' = [lookup EXCEPT !.latest =
       [k \in DOMAIN @ \cup {getRouteKey(handler.contract.method,
                                         handler.contract.path)} |->
          IF k = getRouteKey(handler.contract.method, handler.contract.path)
          THEN handler ELSE @[k]]]
  /\ UNCHANGED <<middlewares, options, pq, rd, inflight, heap>>
  /\ UNCHANGED fetchVars

NextRegister ==
  \/ \E h \in RegisterHandlers : AppRegister(h)
  \/ \E r \in RegisterRequests : Fetch(r)
  \/ Routing
  \/ ParamsPhase
  \/ QueryPhase
  \/ HeadersPhase
  \/ BodyPhase
  \/ MiddlewarePhase
  \/ ExecuteMiddleware
  \/ ChainReturn
  \/ ResponseValidationPhase

SpecRegister == InitRegister /\ [][NextRegister]_vars

\* ------------------------------------------------------------------------
\* Error-phase specification: one fetch on an App with an onError hook
\* where an exception can be raised in every phase: an invalid URL, an
\* adapter that raises on one surface, a middleware or a handler that
\* throws, a response whose body cannot be cloned
\* ------------------------------------------------------------------------
PhaseHandlers ==
  HookHandlers
    \cup {[contract |-> FullContract("postSpent", POST, PathUserId),
           fn |-> "spent"]}

PhaseValidators ==
  {"zod", "raisesOnParams", "raisesOnQuery", "raisesOnHeaders",
   "raisesOnBody", "raisesOnResponse"}

InitPhases ==
  /\ \E h \in PhaseHandlers :
       /\ routes = Router_register(<<>>, h.contract)
       /\ handlers = HandlersSet(<<>>, h.contract, h.fn)
  /\ middlewares \in {<<>>, <<"throw">>}
  /\ options \in [responseValidation : {"always"},
                  validator : PhaseValidators,
                  hooks : {[onRequest |-> FALSE, onResponse |-> FALSE,
                            onError |-> TRUE]}]
  /\ InitFetch
  /\ lookup = None
  /\ pq = None
  /\ rd = None
  /\ inflight = <<>>
  /\ heap = <<>>

SpecPhases == InitPhases /\ [][NextHooks]_vars

\* ------------------------------------------------------------------------
\* Read specification: one validateResponse call on a handler's response
\* whose body arrives in chunks, with the clock that Date.now() reads and
\* the timer of readWithTimeout.  Times are in milliseconds.
\* ------------------------------------------------------------------------
MaxChunks == 3

\* The delay between a reader.read() call and the stream's next event
Gaps == {0, 20, 30}

\* byteLength of a chunk
ChunkSizes == {1, RESPONSE_VALIDATION_MAX_BODY_BYTES}

\* What decoder.decode makes of a chunk
ChunkText == <<"d">>

\* A body that has not been read: its chunks are still to arrive
ChunkedBody == Body(<<>>, "chunked", 0)

ReadStatuses == {200, 204, 304}

\* z.object({...}).optional(): accepts undefined
OptionalUserSchema == [UserSchema EXCEPT !.optional = TRUE]

ReadSchemas == {UserSchema, OptionalUserSchema}

ReadLengths ==
  {NoLength, [kind |-> "blank"], [kind |-> "nan"], [kind |-> "num", n |-> -1],
   [kind |-> "num", n |-> 5]}

\* new Response(body, {status}) refuses a body with status 204 or 304
ReadResponses ==
  {r \in [origin : {InvokedHandler}, status : ReadStatuses,
          contentType : {"application/json", "text/plain"},
          contentLength : ReadLengths, body : {NoBody, ChunkedBody}] :
     r.status \in {204, 304} => r.body = NoBody}

\* const deadline = useTimeout ? Date.now() + 50 : Infinity
Infinity == [finite |-> FALSE]

deadlineFrom(useTimeout, now) ==
  IF useTimeout
  THEN [finite |-> TRUE, t |-> now + RESPONSE_VALIDATION_READ_TIMEOUT_MS]
  ELSE Infinity

\* const remainingMs = deadline - Date.now(), for a finite deadline
remainingMs_perChunk(deadline, now) == RESPONSE_VALIDATION_READ_TIMEOUT_MS

remainingMs(deadline, now) == deadline.t - now

\* readWithTimeout(reader, remaining) called at now: "timeout" at once, or
\* the time at which its timer resolves the race
readWithTimeout(remaining, now) ==
  IF remaining <= 0 THEN [kind |-> "timeout", at |-> now]
  ELSE [kind |-> "race", at |-> now + remaining]

\* The read of this iteration, for a stream whose next event comes at time
\* at: the event is delivered, or "timeout".  An event and a timer due in
\* the same millisecond settle in either order.
ReadOutcomes(at) ==
  IF ~rd.useTimeout THEN {"event"}
  ELSE LET race == readWithTimeout(remainingMs(rd.deadline, rd.now), rd.now)
       IN IF race.kind = "timeout" THEN {"timeout"}
          ELSE IF at < race.at THEN {"event"}
          ELSE IF at > race.at THEN {"timeout"}
          ELSE {"event", "timeout"}

\* When the loop goes on after "timeout": the time the timer resolved
TimeoutAt ==
  readWithTimeout(remainingMs(rd.deadline, rd.now), rd.now).at

\* fetch, lines 170-180: what it returns for the verdict v
ReturnedFor(v, handlerResponse) ==
  IF ~v.success
  THEN errorResponse(Num(500, 0), phaseMessage("response_validation"),
                     Code(phaseCode("response_validation")),
                     Details(v.error))
  ELSE handlerResponse

\* readResponseText has returned textResult at time now: the rest of
\* readResponseBody, of validateResponse and of fetch
ReadSettled(textResult, now, cancelled, unread) ==
  LET v == validateResponseAfter(
             "zod", rd.schema,
             readResponseBodyAfter(
               [rd.response EXCEPT !.body.text = textResult.text],
               textResult))
  IN rd' = [rd EXCEPT !.pc = "done", !.now = now, !.cancelled = cancelled,
                      !.unread = unread, !.textResult = textResult,
                      !.validation = v,
                      !.returned = ReturnedFor(v, rd.response)]

SkippedText == [success |-> TRUE, kind |-> "skipped", text |-> <<>>]

FailedText ==
  [success |-> FALSE, kind |-> "error", text |-> <<>>,
   error |-> [kind |-> "string", text |-> "Failed to read response body"]]

\* chunks.join("")
RECURSIVE JoinChunks(_)
JoinChunks(chunks) ==
  IF Len(chunks) = 0 THEN <<>>
  ELSE Head(chunks) \o JoinChunks(Tail(chunks))

ReadUnchanged ==
  /\ UNCHANGED <<routes, handlers, middlewares, options, lookup, pq, inflight,
                 heap>>
  /\ UNCHANGED fetchVars

InitRead ==
  /\ InitApp
  /\ options = [responseValidation |-> "always", validator |-> "zod"]
  /\ InitFetch
  /\ lookup = None
  /\ pq = None
  /\ inflight = <<>>
  /\ heap = <<>>
  /\ rd \in [pc : {"call"}, response : ReadResponses, schema : ReadSchemas,
             now : {0, 100}, start : {0}, useTimeout : {FALSE},
             deadline : {Infinity}, totalBytes : {0}, chunks : {<<>>},
             cancelled : {FALSE}, unread : {None}, textResult : {None},
             validation : {None}, returned : {None}]

\* validateResponse with a schema for the status, readResponseBody up to
\* readResponseText's first Date.now()
ReadCall ==
  /\ rd.pc = "call"
  /\ IF \/ rd.response.status \in {204, 304}
        \/ rd.response.body.kind = "none"
        \/ shouldSkipResponseBodyValidation(rd.response)
     THEN LET v == validateResponseAfter("zod", rd.schema,
                                         readResponseBody(rd.response))
          IN rd' = [rd EXCEPT !.pc = "done", !.validation = v,
                              !.returned = ReturnedFor(v, rd.response)]
     ELSE LET useTimeout == ~HasValidContentLength(rd.response.contentLength)
          IN rd' = [rd EXCEPT !.pc = "loop", !.start = rd.now,
                              !.useTimeout = useTimeout,
                              !.deadline = deadlineFrom(useTimeout, rd.now)]
  /\ ReadUnchanged

\* One iteration in which the stream hands over a chunk
ReadChunk ==
  /\ rd.pc = "loop"
  /\ Len(rd.chunks) < MaxChunks
  /\ \E gap \in Gaps, size \in ChunkSizes :
       /\ "event" \in ReadOutcomes(rd.now + gap)
       /\ IF rd.totalBytes + size > RESPONSE_VALIDATION_MAX_BODY_BYTES
          THEN ReadSettled(SkippedText, rd.now + gap, TRUE, None)
          ELSE rd' = [rd EXCEPT !.now = rd.now + gap,
                                !.totalBytes = rd.totalBytes + size,
                                !.chunks = Append(rd.chunks, ChunkText)]
  /\ ReadUnchanged

\* One iteration in which the stream ends: next.done
ReadClose ==
  /\ rd.pc = "loop"
  /\ \E gap \in Gaps :
       /\ "event" \in ReadOutcomes(rd.now + gap)
       /\ ReadSettled([success |-> TRUE, kind |-> "data",
                       text |-> JoinChunks(rd.chunks)],
                      rd.now + gap, FALSE, None)
  /\ ReadUnchanged

\* One iteration in which the stream fails: reader.read() rejects
ReadError ==
  /\ rd.pc = "loop"
  /\ \E gap \in Gaps :
       /\ "event" \in ReadOutcomes(rd.now + gap)
       /\ ReadSettled(FailedText, rd.now + gap, FALSE, None)
  /\ ReadUnchanged

\* One iteration that ends in "timeout": the stream's next event, a chunk
\* or its end, comes at the time unread.at, or never
ReadTimeout ==
  /\ rd.pc = "loop"
  /\ rd.useTimeout
  /\ \E unread \in {[kind |-> "event", at |-> rd.now + gap] : gap \in Gaps}
                     \cup {[kind |-> "never"]} :
       /\ IF unread.kind = "never" THEN TRUE
          ELSE "timeout" \in ReadOutcomes(unread.at)
       /\ ReadSettled(SkippedText, TimeoutAt, TRUE, unread)
  /\ ReadUnchanged

\* reader.read() on a stream that stays open, without a timer: the read
\* never settles
ReadStalls ==
  /\ rd.pc = "loop"
  /\ ~rd.useTimeout
  /\ rd' = [rd EXCEPT !.pc = "reading", !.unread = [kind |-> "never"]]
  /\ ReadUnchanged

NextRead ==
  \/ ReadCall
  \/ ReadChunk
  \/ ReadClose
  \/ ReadError
  \/ ReadTimeout
  \/ ReadStalls

SpecRead == InitRead /\ [][NextRead]_vars

\* ------------------------------------------------------------------------
\* Adapter specification: one handler whose contract declares a query
\* schema, under the zod adapter and under an adapter without
\* getErrorPaths
\* ------------------------------------------------------------------------
\* A schema of another library: the zod adapter refuses it with an error
\* that has no paths
ForeignSchema == [kind |-> "foreign"]

AdapterHandlers ==
  {[contract |-> FullContract("postUser", POST, PathUserId), fn |-> "json"],
   [contract |-> Contract("postForeign", POST, PathUserId, NoSchema,
                          ForeignSchema, NoSchema, NoSchema, <<>>),
    fn |-> "json"],
   [contract |-> BareContract("postBare", POST, PathUserId), fn |-> "json"]}

AdapterRequests ==
  {[urlValid |-> TRUE, method |-> POST, pathname |-> <<"/","u","/","7">>,
    searchParams |-> q, headers |-> HeadersGood, body |-> BodyGood] :
     q \in {QueryGood, QueryBad, <<Entry("id", <<"1","2","3">>)>>,
            <<Entry("id", <<"1","2","3">>), Entry("page", <<"2">>),
              Entry("page", <<"3">>)>>}}

InitAdapters ==
  /\ \E h \in AdapterHandlers : Registered(h)
  /\ options \in [responseValidation : {"off", "always"},
                  validator : {"zod", "noPaths"}, hooks : {NoHooks}]
  /\ InitFetch
  /\ lookup = None
  /\ pq = None
  /\ rd = None
  /\ inflight = <<>>
  /\ heap = <<>>

NextAdapters ==
  \/ \E r \in AdapterRequests : Fetch(r)
  \/ Routing
  \/ ParamsPhase
  \/ QueryPhase
  \/ HeadersPhase
  \/ BodyPhase
  \/ MiddlewarePhase
  \/ ExecuteMiddleware
  \/ ChainReturn
  \/ ResponseValidationPhase

SpecAdapters == InitAdapters /\ [][NextAdapters]_vars

\* ------------------------------------------------------------------------
\* Chain specification: one fetch through middleware lists in which a
\* middleware calls its next thunk twice, one call after the other
\* ------------------------------------------------------------------------
ChainHandlers ==
  {[contract |-> BareContract("getUserBare", GET, PathUserId), fn |-> "json"]}

ChainMiddlewares ==
  {<<>>, <<"pass">>, <<"twice">>, <<"twice", "pass">>, <<"pass", "twice">>,
   <<"twice", "twice">>, <<"twice", "short">>, <<"short", "twice">>,
   <<"twice", "replace">>}

ChainRequests ==
  {r \in Requests :
     /\ r.method = GET
     /\ r.pathname = <<"/","u","/","7">>
     /\ r.searchParams = QueryGood
     /\ r.headers = HeadersGood
     /\ r.body = BodyGood}

InitChain ==
  /\ \E h \in ChainHandlers :
       /\ routes = Router_register(<<>>, h.contract)
       /\ handlers = HandlersSet(<<>>, h.contract, h.fn)
  /\ middlewares \in ChainMiddlewares
  /\ options = [responseValidation |-> "off", validator |-> "zod",
                hooks |-> NoHooks]
  /\ InitFetch
  /\ lookup = None
  /\ pq = None
  /\ rd = None
  /\ inflight = <<>>
  /\ heap = <<>>

NextChain ==
  \/ \E r \in ChainRequests : Fetch(r)
  \/ Routing
  \/ ParamsPhase
  \/ QueryPhase
  \/ HeadersPhase
  \/ BodyPhase
  \/ MiddlewarePhase
  \/ ExecuteMiddleware
  \/ MiddlewareResume
  \/ ChainReturn
  \/ ResponseValidationPhase

SpecChain == InitChain /\ [][NextChain]_vars

\* ------------------------------------------------------------------------
\* Use specification: one fetch through middleware that suspend before
\* they call next, with App.use called while the fetch is suspended
\* ------------------------------------------------------------------------
UseMiddlewares ==
  {<<>>, <<"await">>, <<"pass", "await">>, <<"await", "await">>}

InitUse ==
  /\ \E h \in ChainHandlers :
       /\ routes = Router_register(<<>>, h.contract)
       /\ handlers = HandlersSet(<<>>, h.contract, h.fn)
  /\ middlewares \in UseMiddlewares
  /\ options = [responseValidation |-> "off", validator |-> "zod",
                hooks |-> NoHooks]
  /\ InitFetch
  /\ lookup = None
  /\ pq = None
  /\ rd = None
  /\ inflight = <<>>
  /\ heap = <<>>

NextUse ==
  \/ \E r \in ChainRequests : Fetch(r)
  \/ Routing
  \/ ParamsPhase
  \/ QueryPhase
  \/ HeadersPhase
  \/ BodyPhase
  \/ MiddlewarePhase
  \/ ExecuteMiddleware
  \/ MiddlewareContinue
  \/ UseInFlight
  \/ MiddlewareResume
  \/ ChainReturn
  \/ ResponseValidationPhase

SpecUse == InitUse /\ [][NextUse]_vars

\* ------------------------------------------------------------------------
\* Failure specification: one fetch on an App with an onError hook, with
\* or without an onResponse hook, where every failure fetch answers by
\* itself can happen (no route, no handler, a surface the adapter rejects,
\* a body that does not parse, a response that breaks the contract) next
\* to the exceptions fetch catches (an invalid URL, a malformed path, a
\* handler that throws)
\* ------------------------------------------------------------------------
FailureHandlers ==
  {[contract |-> FullContract("postUser", POST, PathUserId), fn |-> "json"],
   [contract |-> FullContract("postThrows", POST, PathUserId),
    fn |-> "throws"],
   [contract |-> BareContract("postUserNoFn", POST, PathUserId),
    fn |-> "undefined"]}

FailureRequest(urlValid, method, pathname, searchParams, headers, body) ==
  [urlValid |-> urlValid, method |-> method, pathname |-> pathname,
   searchParams |-> searchParams, headers |-> headers, body |-> body]

FailureRequests ==
  {FailureRequest(TRUE, POST, <<"/","u","/","7">>, QueryGood, HeadersGood,
                  BodyGood),
   FailureRequest(TRUE, POST, <<"/","u","/","m","e">>, QueryGood,
                  HeadersGood, BodyGood),
   FailureRequest(TRUE, POST, <<"/","u","/","7">>, QueryBad, HeadersGood,
                  BodyGood),
   FailureRequest(TRUE, POST, <<"/","u","/","7">>, QueryGood, HeadersBad,
                  BodyGood),
   FailureRequest(TRUE, POST, <<"/","u","/","7">>, QueryGood, HeadersGood,
                  BodyBad),
   FailureRequest(TRUE, POST, <<"/","u","/","7">>, QueryGood, HeadersGood,
                  BodyMalformed),
   FailureRequest(TRUE, POST, <<"/","u","/","%","E","0","%","A","4","%","A">>,
                  QueryGood, HeadersGood, BodyGood),
   FailureRequest(TRUE, GET, <<"/","u","/","7">>, QueryGood, HeadersGood,
                  BodyGood),
   FailureRequest(FALSE, GET, <<"/","u","/","7">>, QueryGood, HeadersGood,
                  BodyGood)}

InitFailures ==
  /\ \E h \in FailureHandlers : Registered(h)
  /\ options \in [responseValidation : {"always"}, validator : {"zod"},
                  hooks : [onRequest : {FALSE}, onResponse : BOOLEAN,
                           onError : {TRUE}]]
  /\ InitFetch
  /\ lookup = None
  /\ pq = None
  /\ rd = None
  /\ inflight = <<>>
  /\ heap = <<>>

NextFailures ==
  \/ \E r \in FailureRequests : Fetch(r)
  \/ Routing
  \/ ParamsPhase
  \/ QueryPhase
  \/ HeadersPhase
  \/ BodyPhase
  \/ MiddlewarePhase
  \/ ExecuteMiddleware
  \/ ChainReturn
  \/ ResponseValidationPhase

SpecFailures == InitFailures /\ [][NextFailures]_vars

\* ------------------------------------------------------------------------
\* Body specification: one handler, requests of every method with the
\* bodies and content types that parseBody tells apart
\* ------------------------------------------------------------------------
PUT == <<"P","U","T">>
PATCH == <<"P","A","T","C","H">>
DELETE == <<"D","E","L","E","T","E">>
OPTIONS == <<"O","P","T","I","O","N","S">>

\* z.object({name: z.string()}).optional()
OptionalBodySchema == [BodySchema EXCEPT !.optional = TRUE]

BodyContract(id, method, body) ==
  Contract(id, method, PathUserId, NoSchema, NoSchema, NoSchema, body, <<>>)

BodyHandlers ==
  {[contract |-> BodyContract("postBody", POST, BodySchema), fn |-> "json"],
   [contract |-> BodyContract("putBody", PUT, BodySchema), fn |-> "json"],
   [contract |-> BodyContract("patchBody", PATCH, BodySchema), fn |-> "json"],
   [contract |-> BodyContract("deleteBody", DELETE, BodySchema),
    fn |-> "json"],
   [contract |-> BodyContract("optionsBody", OPTIONS, BodySchema),
    fn |-> "json"],
   [contract |-> BodyContract("getBody", GET, BodySchema), fn |-> "json"],
   [contract |-> BodyContract("postOptional", POST, OptionalBodySchema),
    fn |-> "json"],
   [contract |-> BodyContract("postNoBody", POST, NoSchema), fn |-> "json"]}

\* A request body: its content-type as sent, its text, what JSON.parse
\* makes of the text, its form entries and whether formData() accepts it
RequestBody(contentType, text, ok, value, form, multipartOk) ==
  [contentType |-> contentType, text |-> text,
   json |-> [ok |-> ok, value |-> value], form |-> form,
   multipartOk |-> multipartOk]

NameText == <<"{","\"","n","a","m","e","\"",":","\"","A","\"","}">>

NameValue == Obj([k \in {"name"} |-> Str(<<"A">>)])

NameForm == <<Entry("name", <<"A">>)>>

JsonTypes == {"application/json", "Application/JSON"}

\* JSON.parse raises on an empty or blank text
RequestBodies ==
  {RequestBody(ct, NameText, TRUE, NameValue, <<>>, FALSE) : ct \in JsonTypes}
    \cup {RequestBody(ct, <<>>, FALSE, Undefined, <<>>, FALSE) :
            ct \in JsonTypes}
    \cup {RequestBody(ct, <<" ", "\n">>, FALSE, Undefined, <<>>, FALSE) :
            ct \in JsonTypes}
    \cup {RequestBody(ct, <<"{">>, FALSE, Undefined, <<>>, FALSE) :
            ct \in JsonTypes}
    \cup {BodyBad, BodyFallback,
          RequestBody("application/x-www-form-urlencoded",
                      <<"n","a","m","e","=","A">>, FALSE, Undefined,
                      NameForm, FALSE),
          RequestBody("multipart/form-data; boundary=x", <<"-","-","x">>,
                      FALSE, Undefined, NameForm, TRUE),
          RequestBody("multipart/form-data; boundary=x", <<"-","-","y">>,
                      FALSE, Undefined, <<>>, FALSE)}

\* new Request refuses a body with GET: such a request has none
BodyRequests ==
  {r \in [urlValid : {TRUE},
          method : {GET, POST, PUT, PATCH, DELETE, OPTIONS},
          pathname : {<<"/","u","/","7">>}, searchParams : {QueryGood},
          headers : {HeadersGood}, body : RequestBodies] :
     r.method = GET => r.body = BodyBad}

InitBody ==
  /\ \E h \in BodyHandlers : Registered(h)
  /\ options = [responseValidation |-> "off", validator |-> "zod",
                hooks |-> NoHooks]
  /\ InitFetch
  /\ lookup = None
  /\ pq = None
  /\ rd = None
  /\ inflight = <<>>
  /\ heap = <<>>

NextBody ==
  \/ \E r \in BodyRequests : Fetch(r)
  \/ Routing
  \/ ParamsPhase
  \/ QueryPhase
  \/ HeadersPhase
  \/ BodyPhase
  \/ MiddlewarePhase
  \/ ExecuteMiddleware
  \/ ChainReturn
  \/ ResponseValidationPhase

SpecBody == InitBody /\ [][NextBody]_vars

\* ------------------------------------------------------------------------
\* Properties
\* ------------------------------------------------------------------------
RouteMatches(contract, method, pathname) ==
  /\ contract.method = method
  /\ matchPath(contract.path, pathname).kind = "match"

RegisteredContracts == {routes[i].value : i \in 1..Len(routes)}

IndexOfContract(id) == CHOOSE i \in 1..Len(routes) : routes[i].value.id = id

\* C1: when find is given a pathname that several same-method routes match,
\* the route it returns has at least as many static segments as every other
\* matching route; so GET /u/me resolves to the literal /u/me whenever that
\* route is registered, before or after /u/:id.
C1_StaticRoutePreferred ==
  lookup.kind = "find" =>
    /\ \A c \in RegisteredContracts :
         RouteMatches(c, lookup.method, lookup.pathname) =>
           /\ lookup.result.kind = "match"
           /\ staticSegments(lookup.result.contract.path)
                >= staticSegments(c.path)
    /\ (/\ lookup.method = GET
        /\ lookup.pathname = PathUserMe
        /\ \E c \in RegisteredContracts : c.id = "getUserMe")
         => (lookup.result.kind = "match"
             /\ lookup.result.contract.id = "getUserMe")

C1_Witness ==
  /\ lookup.kind = "find"
  /\ lookup.method = GET
  /\ lookup.pathname = PathUserMe
  /\ \E c \in RegisteredContracts : c.id = "getUserMe"
  /\ \E c \in RegisteredContracts : c.id = "getUserById"
  /\ IndexOfContract("getUserById") < IndexOfContract("getUserMe")
  /\ lookup.result.contract.id = "getUserMe"

\* A route of the request's method and segment count has a ':param' segment
\* where the pathname's segment does not percent-decode
DecodeFailsAgainst(contract, method, pathname) ==
  LET routeParts == FilterBoolean(Split(contract.path, "/"))
      pathParts == FilterBoolean(Split(pathname, "/"))
  IN /\ contract.method = method
     /\ Len(routeParts) = Len(pathParts)
     /\ \E i \in 1..Len(routeParts) :
          /\ StartsWith(routeParts[i], ":")
          /\ ~decodeURIComponent(pathParts[i]).ok

\* C2: a pathname segment that fails percent-decoding against a ':param'
\* segment makes matchPath report a non-match, never an exception, and when
\* no route matches the request fetch answers 404 ROUTE_NOT_FOUND.
C2_DecodeFailureIsNotFound ==
  (pc = "done"
   /\ \E c \in RegisteredContracts :
        DecodeFailsAgainst(c, request.method, request.pathname))
    => /\ \A c \in RegisteredContracts :
            matchPath(c.path, request.pathname).kind # "throw"
       /\ (\A c \in RegisteredContracts :
             ~RouteMatches(c, request.method, request.pathname))
            => (/\ response.origin.kind = "framework"
                /\ response.status = 404
                /\ response.code = Code("ROUTE_NOT_FOUND"))

C2_Witness ==
  /\ pc = "done"
  /\ \E c \in RegisteredContracts :
       DecodeFailsAgainst(c, request.method, request.pathname)
  /\ response.status = 404
  /\ response.code = Code("ROUTE_NOT_FOUND")

PhaseOrder ==
  <<"routing", "params", "query", "headers", "body", "middleware",
    "response_validation">>

IsPrefix(a, b) == Len(a) <= Len(b) /\ \A i \in 1..Len(a) : a[i] = b[i]

\* The error code the documentation gives each phase
ExpectedCode(p) ==
  CASE p = "params" -> "INVALID_PARAMS"
    [] p = "query" -> "INVALID_QUERY"
    [] p = "headers" -> "INVALID_HEADERS"
    [] p = "body" -> "INVALID_BODY"
    [] p = "response" -> "INVALID_RESPONSE"

HandlerRegistered(contract) ==
  contract.id \in DOMAIN handlers /\ handlers[contract.id] # "undefined"

\* The request's value for a surface does not pass the matched contract's
\* schema for it
SurfaceRejected(surface) ==
  LET contract == match.contract
  IN CASE surface = "params" ->
            /\ contract.params.kind # "none"
            /\ ~parseParams(options.validator, contract.params,
                            match.params).result.success
       [] surface = "query" ->
            /\ contract.query.kind # "none"
            /\ ~parseQuery(options.validator, contract.query,
                           request.searchParams).result.success
       [] surface = "headers" ->
            /\ contract.headers.kind # "none"
            /\ ~parseHeaders(options.validator, contract.headers,
                             request.headers).result.success
       [] surface = "body" ->
            /\ contract.body.kind # "none"
            /\ MethodCarriesBody(request.method)
            /\ ~parseBody(options.validator, contract.body,
                          request, FALSE).result.success

InputSurfaces == <<"params", "query", "headers", "body">>

EarliestRejected ==
  LET i == CHOOSE i \in 1..4 :
             /\ SurfaceRejected(InputSurfaces[i])
             /\ \A j \in 1..(i - 1) : ~SurfaceRejected(InputSurfaces[j])
  IN InputSurfaces[i]

\* C3: the phases of one fetch are entered in the order routing, params,
\* query, headers, body, middleware, response-validation, each at most
\* once; when input surfaces are invalid the response carries the code of
\* the earliest of them, that phase is the last one entered, and no
\* middleware and no handler has been invoked.
C3_PhaseOrder ==
  /\ IsPrefix(entered, PhaseOrder)
  /\ (/\ pc = "done"
      /\ match.kind = "match"
      /\ HandlerRegistered(match.contract)
      /\ \E i \in 1..4 : SurfaceRejected(InputSurfaces[i]))
       => /\ response.origin.kind = "framework"
          /\ response.code = Code(ExpectedCode(EarliestRejected))
          /\ entered[Len(entered)] = EarliestRejected
          /\ invoked = <<>>

C3_Witness ==
  /\ pc = "done"
  /\ match.kind = "match"
  /\ SurfaceRejected("query")
  /\ SurfaceRejected("headers")
  /\ SurfaceRejected("body")
  /\ ~SurfaceRejected("params")
  /\ response.code = Code("INVALID_QUERY")
  /\ entered = <<"routing", "params", "query">>

LastCall == adapterLog[Len(adapterLog)]

\* C4: each failure returns the status and code of its phase: 404
\* ROUTE_NOT_FOUND when no route matches, 500 HANDLER_NOT_FOUND for a
\* matched contract without handler, 400 INVALID_PARAMS / INVALID_QUERY /
\* INVALID_HEADERS / INVALID_BODY with the adapter's error as details when
\* the adapter rejects that surface, 500 INVALID_RESPONSE when it rejects
\* the response.
C4_PhaseErrorCodes ==
  pc = "done" =>
    /\ (\A c \in RegisteredContracts :
          ~RouteMatches(c, request.method, request.pathname))
         => (/\ response.origin.kind = "framework"
             /\ response.status = 404
             /\ response.code = Code("ROUTE_NOT_FOUND"))
    /\ (match.kind = "match" /\ ~HandlerRegistered(match.contract))
         => (/\ response.origin.kind = "framework"
             /\ response.status = 500
             /\ response.code = Code("HANDLER_NOT_FOUND"))
    /\ (Len(adapterLog) > 0 /\ ~LastCall.result.success)
         => (/\ response.origin.kind = "framework"
             /\ response.status =
                  (IF LastCall.surface = "response" THEN 500 ELSE 400)
             /\ response.code = Code(ExpectedCode(LastCall.surface))
             /\ response.details = Details(LastCall.result.error))
    /\ (match.kind = "match" /\ HandlerRegistered(match.contract)
        /\ SurfaceRejected("body"))
         => (response.origin.kind = "framework" /\ response.status = 400)

C4_Witness ==
  /\ pc = "done"
  /\ Len(adapterLog) > 0
  /\ LastCall.surface = "headers"
  /\ ~LastCall.result.success
  /\ response.status = 400
  /\ response.code = Code("INVALID_HEADERS")

Surfaces == {"params", "query", "headers", "body"}

\* The adapter accepted a value for the surface and the Context holds the
\* adapter's output
SurfaceFinal(surface) ==
  match.contract[surface].kind # "none" =>
    \E i \in 1..Len(adapterLog) :
      /\ adapterLog[i].surface = surface
      /\ adapterLog[i].result.success
      /\ ctx[surface] = adapterLog[i].result.data

\* C5 (as claimed): whenever a middleware or the handler has been invoked,
\* every surface the contract declares a schema for has been accepted by
\* the adapter and the Context holds the adapter's output, for every HTTP
\* method.
C5_AllSurfacesValidated ==
  Len(invoked) > 0 => \A surface \in Surfaces : SurfaceFinal(surface)

\* C5 (amended): whenever a middleware or the handler has been invoked,
\* params, query and headers are validated as claimed for every method; the
\* body is validated only when the method is POST, PUT, PATCH or DELETE, and
\* for any other method the adapter is never asked about the body and the
\* Context body is still the default empty object.
C5_SurfacesValidatedBodyByMethod ==
  Len(invoked) > 0 =>
    /\ \A surface \in Surfaces \ {"body"} : SurfaceFinal(surface)
    /\ MethodCarriesBody(request.method) => SurfaceFinal("body")
    /\ ~MethodCarriesBody(request.method) =>
         /\ ctx.body = EmptyObj
         /\ \A i \in 1..Len(adapterLog) : adapterLog[i].surface # "body"

C5_Witness ==
  /\ Len(invoked) > 0
  /\ request.method = POST
  /\ \A surface \in Surfaces : match.contract[surface].kind # "none"
  /\ ctx.body = BodyGood.json.value
  /\ ctx.query.o["page"] = Num(2, 0)

\* A raw query value: a string, or a list of strings for a repeated key
IsRawValue(v) ==
  \/ v.t = "str"
  \/ v.t = "list" /\ \A i \in 1..Len(v.l) : v.l[i].t = "str"

\* C6: in the coercion retry only the keys that getErrorPaths named for the
\* raw failure may differ from their raw string value; every other key is
\* validated the second time exactly as it arrived.  With the schema
\* {id: string, page: number} and the query id=123&page=2 the result has
\* id = "123" (a string) and page = 2 (a number).
C6_CoercionOnlyOnFailingKeys ==
  pq.kind = "parseQuery" =>
    /\ \A k \in DOMAIN pq.out.calls[1].data.o :
         IsRawValue(pq.out.calls[1].data.o[k])
    /\ Len(pq.out.calls) = 2 =>
         /\ DOMAIN pq.out.calls[2].data.o = DOMAIN pq.out.calls[1].data.o
         /\ \A k \in DOMAIN pq.out.calls[1].data.o :
              k \notin Range(zodValidator_getErrorPaths(
                               pq.out.calls[1].result.error))
                => pq.out.calls[2].data.o[k] = pq.out.calls[1].data.o[k]
    /\ (pq.schema = QuerySchema /\ pq.searchParams = QueryGood
        /\ pq.validator = "zod") =>
         /\ pq.out.result.success
         /\ pq.out.result.data.o["id"] = Str(<<"1","2","3">>)
         /\ pq.out.result.data.o["page"] = Num(2, 0)

C6_Witness ==
  /\ pq.kind = "parseQuery"
  /\ pq.schema = QuerySchema
  /\ pq.searchParams = QueryGood
  /\ Len(pq.out.calls) = 2
  /\ pq.out.calls[2].data.o["id"] = Str(<<"1","2","3">>)
  /\ pq.out.calls[2].data.o["page"] = Num(2, 0)
  /\ pq.out.result.success

\* C7: parseQuery asks the adapter at most twice: first about the raw
\* string-valued object, and a second time, about the coerced object, only
\* when the first answer was a failure; the answer to the last call is the
\* result, whether success or failure.
C7_AtMostTwoQueryValidations ==
  pq.kind = "parseQuery" =>
    /\ Len(pq.out.calls) \in {1, 2}
    /\ pq.out.calls[1].data = queryObjectFrom(pq.searchParams, 1, <<>>)
    /\ Len(pq.out.calls) = 2 =>
         /\ ~pq.out.calls[1].result.success
         /\ pq.out.calls[2].data # pq.out.calls[1].data
              => \E k \in DOMAIN pq.out.calls[2].data.o :
                   ~IsRawValue(pq.out.calls[2].data.o[k])
    /\ pq.out.result = pq.out.calls[Len(pq.out.calls)].result

C7_Witness ==
  /\ pq.kind = "parseQuery"
  /\ Len(pq.out.calls) = 2
  /\ ~pq.out.calls[2].result.success
  /\ ~pq.out.result.success
  /\ pq.out.calls[2].data # pq.out.calls[1].data

InvokedIndices ==
  {invoked[k].index : k \in {j \in 1..Len(invoked) :
                               invoked[j].kind = "middleware"}}

HandlerInvoked == \E k \in 1..Len(invoked) : invoked[k].kind = "handler"

\* Middleware i was invoked and returned without calling next
ShortCircuited(i) == i \in InvokedIndices /\ i \notin nextCalled

ChainSettled == pc \in {"response_validation", "reading", "done"}

\* Invocations follow registration order, each one after its predecessor
\* called next, and the handler after all of them did
ChainInOrder ==
  /\ \A k \in 1..Len(invoked) :
       /\ invoked[k].kind = "middleware" =>
            (invoked[k].index = k - 1 /\ k <= Len(middlewares))
       /\ invoked[k].kind = "handler" => k = Len(middlewares) + 1
       /\ k > 1 => (k - 2) \in nextCalled
  /\ HandlerInvoked => \A i \in 0..(Len(middlewares) - 1) : i \in nextCalled

\* C8 (as claimed): middleware run as nested continuations in registration
\* order; a middleware that returns without calling next ends the chain:
\* nothing after it is invoked, and its response is the one that proceeds to
\* response validation and that fetch returns.
C8_ShortCircuitResponseReturned ==
  /\ ChainInOrder
  /\ \A i \in 0..(Len(middlewares) - 1) :
       ShortCircuited(i) =>
         /\ Len(invoked) = i + 1
         /\ ChainSettled => chainResponse.origin = InvokedMiddleware(i)
         /\ pc = "done" => response.origin = InvokedMiddleware(i)

\* Every middleware registered before i hands back what next() gave it
EnclosingPassThrough(i) == \A j \in 1..i : middlewares[j] = "pass"

\* C8 (amended): as claimed, except for the fate of the short-circuit
\* response: it is what next() resolves to in the enclosing middleware; it
\* proceeds to response validation when every enclosing middleware returns
\* what next() gave it, and fetch then returns it unless response
\* validation rejects it.
C8_ShortCircuitEndsChain ==
  /\ ChainInOrder
  /\ \A i \in 0..(Len(middlewares) - 1) :
       ShortCircuited(i) =>
         /\ Len(invoked) = i + 1
         /\ (ChainSettled /\ EnclosingPassThrough(i))
              => chainResponse.origin = InvokedMiddleware(i)
         /\ (pc = "done" /\ EnclosingPassThrough(i) /\ validation.success)
              => response = chainResponse

C8_Witness ==
  /\ pc = "done"
  /\ Len(middlewares) = 2
  /\ middlewares[1] = "pass"
  /\ ShortCircuited(1)
  /\ ~HandlerInvoked
  /\ response.origin = InvokedMiddleware(1)

\* C9: when the adapter is asked about a response, it is asked with the
\* schema declared for the response's actual status; if it rejects the body
\* fetch returns 500 INVALID_RESPONSE with the adapter's error as details,
\* and if it accepts the body fetch returns the chain's response unchanged.
C9_ResponseContractEnforced ==
  (pc = "done" /\ Len(adapterLog) > 0 /\ LastCall.surface = "response") =>
    /\ chainResponse.status \in DOMAIN match.contract.response
    /\ LastCall.result =
         Validator_parse(options.validator,
                         match.contract.response[chainResponse.status],
                         LastCall.data)
    /\ ~LastCall.result.success =>
         /\ response.origin.kind = "framework"
         /\ response.status = 500
         /\ response.code = Code("INVALID_RESPONSE")
         /\ response.details = Details(LastCall.result.error)
    /\ LastCall.result.success => response = chainResponse

C9_Witness ==
  /\ pc = "done"
  /\ options.responseValidation = "always"
  /\ Len(adapterLog) > 0
  /\ LastCall.surface = "response"
  /\ chainResponse.status = 200
  /\ chainResponse.body = PartialUserJson
  /\ response.status = 500
  /\ response.code = Code("INVALID_RESPONSE")

\* The runtime's environment signal: NODE_ENV of process, else of Bun, else
\* of Deno, when it can be read
Signal(env) ==
  IF env.node # NoEnv THEN env.node
  ELSE IF env.bun # NoEnv THEN env.bun
  ELSE IF env.deno \notin {NoEnv, DenoThrows} THEN env.deno
  ELSE NoEnv

ResponseCalls ==
  {i \in 1..Len(adapterLog) : adapterLog[i].surface = "response"}

\* A response the validator reads to the end and hands to the adapter
Checkable ==
  /\ chainResponse.status \in DOMAIN match.contract.response
  /\ chainResponse.body.kind = "text"
  /\ chainResponse.body.stream = "closed"
  /\ chainResponse.contentType = "application/json"

\* C10: response validation is gated by the mode: never with "off" (the
\* response is returned as produced), always with "always", and with
\* "development" exactly when the environment signal is not "production",
\* which includes the case of no signal at all.
C10_ValidationModeGate ==
  (pc = "done" /\ validation.kind # "none") =>
    LET runs == validation.kind # "off"
    IN /\ options.responseValidation = "off" =>
            (~runs /\ ResponseCalls = {} /\ response = chainResponse)
       /\ options.responseValidation = "always" => runs
       /\ options.responseValidation = "development" =>
            /\ runs <=> Signal(envSeen) # "production"
            /\ Signal(envSeen) = NoEnv => runs
       /\ Checkable => (runs <=> ResponseCalls # {})

C10_Witness ==
  /\ pc = "done"
  /\ options.responseValidation = "development"
  /\ envSeen = DefaultEnv
  /\ Checkable
  /\ ResponseCalls # {}
  /\ response.code = Code("INVALID_RESPONSE")

\* The response the chain produced has a schema declared for its status
Declared ==
  chainResponse.status \in DOMAIN match.contract.response

\* C11: the response schema is the one declared for the actual status of
\* the response the chain produced; a response whose status has no
\* declared schema, or whose contract has no response map, is never
\* checked (no adapter call, no clone, no read) and is returned unchanged,
\* in every validation mode.
C11_SchemaByActualStatus ==
  (pc \in {"done", "reading"} /\ validation.kind # "none") =>
    /\ ~Declared =>
         /\ ResponseCalls = {}
         /\ io.clones.response = 0
         /\ "chain" \notin io.used
         /\ pc = "done"
         /\ response = chainResponse
    /\ \A i \in ResponseCalls :
         /\ Declared
         /\ adapterLog[i].result =
              Validator_parse(options.validator,
                              match.contract.response[chainResponse.status],
                              adapterLog[i].data)

C11_Witness ==
  /\ pc = "done"
  /\ options.responseValidation = "always"
  /\ DOMAIN match.contract.response # {}
  /\ chainResponse.status = 404
  /\ chainResponse.body = PartialUserJson
  /\ chainResponse.contentType = "application/json"
  /\ response = chainResponse

\* C12: response validation never stalls: once fetch has reached the
\* response-validation phase, whatever the response (a body stream that
\* never closes included), the phase eventually finishes and fetch returns.
C12_ResponseValidationTerminates ==
  (pc = "response_validation") ~> (pc \in {"done", "rejected"})

\* C13: response validation never consumes the body the caller receives:
\* whatever the check's outcome (pass, skip, timeout, byte-cap cancel), no
\* response's own body is read or locked, only a clone made by exactly one
\* clone() call is read, and a response that passes is returned as the
\* handler produced it.
C13_ValidationReadsOnlyAClone ==
  /\ io.used \cap {"chain", "framework"} = {}
  /\ validation.kind # "none" =>
       /\ validation.read \in {"none", "clone"}
       /\ io.clones.response = IF validation.read = "clone" THEN 1 ELSE 0
  /\ (pc = "done" /\ validation.kind # "none" /\ validation.success) =>
       response = chainResponse

C13_Witness ==
  /\ pc = "done"
  /\ validation.kind = "skipped"
  /\ validation.read = "clone"
  /\ chainResponse.body.stream = "open"
  /\ chainResponse.body.bytes <= RESPONSE_VALIDATION_MAX_BODY_BYTES
  /\ io.clones.response = 1
  /\ response = chainResponse

\* The response validator got as far as looking at the response's body
BodyLookedAt == validation.kind \notin {"none", "off", "noschema"}

\* A content-type of an event stream or of NDJSON, or a declared length
\* over the cap
PresumedLongLived(resp) ==
  \/ IncludesEventStream(resp.contentType)
  \/ IncludesNdjson(resp.contentType)
  \/ /\ resp.contentLength.kind = "num"
     /\ resp.contentLength.n > RESPONSE_VALIDATION_MAX_BODY_BYTES

\* Validation was skipped as a pass without touching the response
SkippedUnread ==
  /\ validation.success
  /\ validation.read = "none"
  /\ io.clones.response = 0
  /\ ResponseCalls = {}
  /\ pc = "done" => response = chainResponse

\* The read of the clone went over the byte cap: cancelled, skipped as a
\* pass, never INVALID_RESPONSE
CapCancelIsPass ==
  (validation.read = "clone"
   /\ chainResponse.body.bytes > RESPONSE_VALIDATION_MAX_BODY_BYTES) =>
    /\ validation.success
    /\ validation.kind = "skipped"
    /\ ResponseCalls = {}
    /\ pc = "done" => response = chainResponse

\* C14 as claimed: a response whose content-type is text/event-stream or
\* application/x-ndjson, or whose content-length declares more than 1 MiB,
\* is never cloned or read and is treated as passing; a read of a clone
\* that exceeds 1 MiB is cancelled and skipped as a pass.
C14_LongLivedResponsesSkipped ==
  BodyLookedAt =>
    /\ PresumedLongLived(chainResponse) => SkippedUnread
    /\ CapCancelIsPass

\* C14 as amended: the skip applies to a response that has a body; a
\* body-less response is not skipped but handed to the adapter as
\* undefined, whatever its content-type and content-length say.
C14_LongLivedBodiesSkipped ==
  BodyLookedAt =>
    /\ (PresumedLongLived(chainResponse)
        /\ chainResponse.body.kind # "none") =>
         (SkippedUnread /\ validation.kind = "skipped")
    /\ (PresumedLongLived(chainResponse)
        /\ chainResponse.body.kind = "none") =>
         /\ validation.read = "none"
         /\ io.clones.response = 0
         /\ \E i \in ResponseCalls : adapterLog[i].data = Undefined
    /\ CapCancelIsPass

C14_Witness ==
  /\ pc = "done"
  /\ options.responseValidation = "always"
  /\ Declared
  /\ chainResponse.contentType = "text/event-stream"
  /\ chainResponse.contentLength = NoLength
  /\ chainResponse.body.kind = "text"
  /\ chainResponse.body.stream = "open"
  /\ validation.kind = "skipped"
  /\ response = chainResponse

\* A read of a clone that went over the cap is reached as well
C14_CapWitness ==
  /\ pc = "done"
  /\ validation.read = "clone"
  /\ chainResponse.body.bytes > RESPONSE_VALIDATION_MAX_BODY_BYTES
  /\ validation.kind = "skipped"

\* The hooks that fired, in order
HookNames == [i \in 1..Len(hookLog) |-> hookLog[i].hook]

Fired(name) == {i \in 1..Len(hookLog) : hookLog[i].hook = name}

\* onRequest at most once, then onError at most once, then onResponse at
\* most once
HookOrder ==
  \E a, b, c \in {0, 1} :
    HookNames = [i \in 1..a |-> "onRequest"]
                  \o [i \in 1..b |-> "onError"]
                  \o [i \in 1..c |-> "onResponse"]

\* fetch has settled: it returned a response or it rejected
Settled == pc \in {"done", "rejected"}

\* C15: the hooks of one fetch fire as onRequest at most once, then
\* onError at most once, then onResponse exactly once and last (for the
\* hooks that are configured); onError fires only for an exception the
\* pipeline caught, and onResponse is handed the response fetch returns.
HookSequenceAt(settled) ==
  /\ HookOrder
  /\ \A i \in Fired("onError") :
       /\ caught.kind = "caught"
       /\ hookLog[i].event.error = caught.error
  /\ (settled /\ options.hooks.onError /\ caught.kind = "caught") =>
       Cardinality(Fired("onError")) = 1
  /\ (settled /\ options.hooks.onResponse) =>
       /\ Cardinality(Fired("onResponse")) = 1
       /\ hookLog[Len(hookLog)].hook = "onResponse"
       /\ hookLog[Len(hookLog)].event.response = response

C15_HookSequence == HookSequenceAt(Settled)

\* The sequence is as claimed whenever fetch returns a response; it breaks
\* only where fetch rejects
HookSequenceWhenReturned == HookSequenceAt(pc = "done")

\* fetch rejected after onError had fired: onResponse never fires
HookSequenceBroken ==
  /\ pc = "rejected"
  /\ options.hooks.onResponse
  /\ options.hooks.onError
  /\ Fired("onError") # {}
  /\ Fired("onResponse") = {}

\* What fetch's catch block returns for an error when no hook is
\* configured: None where errorResponse cannot serialize the details
BareCatch(error) ==
  LET normalized == normalizeError(error)
  IN IF Serializable(normalized.details)
     THEN errorResponse(Num(normalized.status, 0), normalized.message,
                        normalized.code, normalized.details)
     ELSE None

BareInvalid(p, result) ==
  [kind |-> "response",
   resp |-> errorResponse(Num(400, 0), phaseMessage(p), Code(phaseCode(p)),
                          Details(result.error))]

\* The request's way through an App without hooks, up to the chain: the
\* response of the phase that ends it, or "chain" when the chain is reached
BareBeforeChain(r) ==
  LET found == Router_find(routes, r.method, r.pathname)
      c == found.contract
  IN IF ~r.urlValid
     THEN [kind |-> "response", resp |-> BareCatch(TypeError("Invalid URL"))]
     ELSE IF found.kind = "throw"
     THEN [kind |-> "response", resp |-> BareCatch(TypeError("URI malformed"))]
     ELSE IF found.kind = "nomatch"
     THEN [kind |-> "response",
           resp |-> errorResponse(Num(404, 0), "Not Found",
                                  Code("ROUTE_NOT_FOUND"), NoDetails)]
     ELSE IF ~(c.id \in DOMAIN handlers /\ handlers[c.id] # "undefined")
     THEN [kind |-> "response",
           resp |-> errorResponse(Num(500, 0), "Handler not found",
                                  Code("HANDLER_NOT_FOUND"), NoDetails)]
     ELSE LET params == parseParams(options.validator, c.params, found.params)
              query == parseQuery(options.validator, c.query, r.searchParams)
              headers == parseHeaders(options.validator, c.headers, r.headers)
              body == parseBody(options.validator, c.body, r, FALSE)
          IN IF c.params.kind # "none" /\ ~params.result.success
             THEN BareInvalid("params", params.result)
             ELSE IF c.query.kind # "none" /\ ~query.result.success
             THEN BareInvalid("query", query.result)
             ELSE IF c.headers.kind # "none" /\ ~headers.result.success
             THEN BareInvalid("headers", headers.result)
             ELSE IF c.body.kind # "none" /\ MethodCarriesBody(r.method)
                     /\ ~body.result.success
             THEN BareInvalid("body", body.result)
             ELSE [kind |-> "chain"]

\* The same App without hooks, from the outcome of the chain on: the
\* exception the chain threw, or the response it produced
BareAfterChain ==
  IF chain.mode = "thrown"
  THEN BareCatch(caught.error)
  ELSE LET v == validateResponse(options.validator,
                                 options.responseValidation, envSeen,
                                 match.contract, chainResponse)
       IN IF v.kind = "threw" THEN BareCatch(ValidationThrew(v))
          ELSE IF v.success THEN chainResponse
          ELSE errorResponse(Num(500, 0),
                             phaseMessage("response_validation"),
                             Code(phaseCode("response_validation")),
                             Details(v.error))

\* C16: hook isolation: whatever hooks are configured and whatever they do
\* (read bodies, throw, reject), the response fetch settles with, status
\* and body, is the one the same request gets from the same App with no
\* hooks configured.
C16_HookIsolation ==
  Settled =>
    LET bare == BareBeforeChain(request)
    IN IF bare.kind = "response"
       THEN response = bare.resp
       ELSE /\ invoked # <<>>
            /\ response = BareAfterChain

\* All three hooks fired and each of them threw
C16_Witness ==
  /\ pc = "done"
  /\ HookNames = <<"onRequest", "onError", "onResponse">>
  /\ \A i \in 1..3 : hookLog[i].threw
  /\ caught.phase = "middleware"
  /\ response.status = 422

\* A throwing onResponse hook on a response the handler returned
C16_ReturnWitness ==
  /\ pc = "done"
  /\ HookNames = <<"onRequest", "onResponse">>
  /\ \A i \in 1..2 : hookLog[i].threw
  /\ response = chainResponse

\* The hook of a log entry invoked a body-reading operation
HookReadBody(e) ==
  \E j \in 1..Len(e.obs) : e.obs[j].op \in {"text", "read"}

NoHookReadsBody == \A i \in 1..Len(hookLog) : ~HookReadBody(hookLog[i])

\* The clone() calls the pipeline makes on its own: the fallback branch of
\* parseBody, and response validation when it reads the body
PipelineRequestClones ==
  IF pc # "setup" /\ phase \in {"body", "middleware", "response_validation"}
     /\ "body" \in {entered[i] : i \in 1..Len(entered)}
     /\ match.contract.body.kind # "none"
     /\ MethodCarriesBody(request.method)
  THEN parseBody(options.validator, match.contract.body, request,
                 FALSE).clones
  ELSE 0

PipelineResponseClones ==
  IF validation.kind # "none" /\ validation.read = "clone" THEN 1 ELSE 0

\* C17 as claimed: zero-copy: when no hook reads a body (in particular
\* when no hooks are configured), a whole fetch performs no clone operation
\* on the request and none on the response.
C17_ZeroCopy ==
  (Settled /\ NoHookReadsBody) =>
    /\ io.clones.request = 0
    /\ io.clones.response = 0

\* C17 as amended: when no hook reads a body, the hooks and their views
\* perform no clone operation; the clone operations of a whole fetch are
\* the pipeline's own: one on the request when parseBody takes its
\* fallback branch, one on the response when response validation reads
\* its body.
C17_ZeroCopyOfHooks ==
  /\ \A i \in 1..Len(hookLog) :
       ~HookReadBody(hookLog[i]) =>
         hookLog[i].clonesAfter = hookLog[i].clonesBefore
  /\ NoHookReadsBody =>
       /\ io.clones.request = PipelineRequestClones
       /\ io.clones.response = PipelineResponseClones

\* Hooks that only look at metadata and bodyUsed, on a request and a
\* response that have bodies: no clone at all
C17_Witness ==
  /\ pc = "done"
  /\ HookNames = <<"onRequest", "onResponse">>
  /\ \A i \in 1..2 : /\ hookLog[i].program = <<"meta", "body", "bodyUsed">>
                     /\ hookLog[i].hadBody
  /\ io.clones = [request |-> 0, response |-> 0]

\* No hook configured, and response validation cloned the response
C17_ValidationCloneWitness ==
  /\ pc = "done"
  /\ options.hooks = NoHooks
  /\ validation.kind # "none"
  /\ validation.read = "clone"
  /\ io.clones = [request |-> 0, response |-> 1]

\* No hook configured, and parseBody cloned the request
C17_FallbackCloneWitness ==
  /\ pc = "done"
  /\ options.hooks = NoHooks
  /\ request.body = BodyFallback
  /\ io.clones.request = 1

\* clone() calls a hook's view made on the object it is a view of, and on
\* the other object
ClonesBy(e) ==
  e.clonesAfter[CloneKind(e.view.target)]
    - e.clonesBefore[CloneKind(e.view.target)]

OtherKind(e) ==
  IF CloneKind(e.view.target) = "request" THEN "response" ELSE "request"

\* A body-reading operation of the hook at or before its j-th operation
ReadBy(e, j) == \E k \in 1..j : e.obs[k].op \in {"text", "read"}

BoolText(b) == IF b THEN "true" ELSE "false"

\* Lazily and at most once: no clone before the first body-reading
\* operation, one clone() call from it on, the same clone ever after
LazyMemoizedClone(e) ==
  /\ ClonesBy(e) = IF e.hadBody /\ HookReadBody(e) THEN 1 ELSE 0
  /\ e.clonesAfter[OtherKind(e)] = e.clonesBefore[OtherKind(e)]
  /\ \A j \in 1..Len(e.obs) :
       /\ (e.obs[j].clone = "none") <=> ~(e.hadBody /\ ReadBy(e, j))
       /\ e.obs[j].clone # "none" => e.obs[j].clone = e.view.clone
  /\ (e.program = <<"text", "text">> /\ e.view.clone = "clone") =>
       e.obs[2].value = "TypeError"

\* C18 as claimed: each view creates its clone lazily on the first
\* body-reading operation and at most once, later reads use that memoized
\* clone, and the view's bodyUsed reports false before the hook's first
\* read and true after it.
C18_LazyCloneAndBodyUsed ==
  \A i \in 1..Len(hookLog) :
    LET e == hookLog[i]
    IN /\ ClonesBy(e) <= 1
       /\ ~HookReadBody(e) => ClonesBy(e) = 0
       /\ \A j \in 1..Len(e.obs) :
            e.obs[j].op = "bodyUsed" =>
              e.obs[j].value = BoolText(ReadBy(e, j))

\* C18 as amended: bodyUsed reports the original's flag before the hook's
\* first read (true when the pipeline has already consumed the original)
\* and the clone's flag after it: true for a real clone, false for the
\* body-less copy made when the original could not be cloned; a view of a
\* request or response without a body is that object itself, is never
\* cloned and reports false throughout.
C18_LazyMemoizedClone ==
  \A i \in 1..Len(hookLog) :
    LET e == hookLog[i]
    IN /\ LazyMemoizedClone(e)
       /\ \A j \in 1..Len(e.obs) :
            e.obs[j].op = "bodyUsed" =>
              e.obs[j].value =
                IF e.hadBody /\ ReadBy(e, j)
                THEN BoolText(e.obs[j].clone = "clone")
                ELSE BoolText(e.usedBefore)

\* A hook that asks bodyUsed, reads the body, asks again, on a view whose
\* original can be cloned
C18_Witness ==
  \E i \in 1..Len(hookLog) :
    /\ hookLog[i].program = <<"bodyUsed", "text", "bodyUsed">>
    /\ hookLog[i].hadBody
    /\ ClonesBy(hookLog[i]) = 1
    /\ [j \in 1..3 |-> hookLog[i].obs[j].value] = <<"false", "content", "true">>

\* The same hook on the view of a request the body phase has consumed
C18_ConsumedWitness ==
  \E i \in 1..Len(hookLog) :
    /\ hookLog[i].program = <<"bodyUsed", "text", "bodyUsed">>
    /\ hookLog[i].usedBefore
    /\ hookLog[i].view.clone = "fallback"
    /\ [j \in 1..3 |-> hookLog[i].obs[j].value] = <<"true", "empty", "false">>

\* Two reads through one view: one clone() call, the second read finds
\* the clone used
C18_MemoWitness ==
  \E i \in 1..Len(hookLog) :
    /\ hookLog[i].program = <<"text", "text">>
    /\ hookLog[i].view.clone = "clone"
    /\ ClonesBy(hookLog[i]) = 1

\* The body phase has parsed the request's body
BodyParsed ==
  /\ pc # "setup"
  /\ "body" \in {entered[i] : i \in 1..Len(entered)}
  /\ match.contract.body.kind # "none"
  /\ MethodCarriesBody(request.method)

BodyCalls == {i \in 1..Len(adapterLog) : adapterLog[i].surface = "body"}

\* C19: a hook that reads a body through its view never advances or locks
\* the original: only the body phase consumes the request's body, and it
\* finds the complete body whatever the hooks before it have read; the
\* body of the response fetch returns is unread when the caller gets it,
\* whatever the onResponse hook has read.
C19_HookReadsLeaveOriginal ==
  /\ io.used \subseteq {"request"}
  /\ "request" \in io.used =>
       /\ BodyParsed
       /\ parseBody(options.validator, match.contract.body, request,
                    FALSE).consumed
  /\ BodyParsed =>
       LET out == parseBody(options.validator, match.contract.body, request,
                            FALSE)
       IN /\ ~(caught.kind = "caught" /\ caught.phase = "body")
          /\ [i \in 1..Cardinality(BodyCalls) |->
                [data |-> adapterLog[CHOOSE k \in BodyCalls :
                            Cardinality({m \in BodyCalls : m < k}) = i - 1].data]]
             = [i \in 1..Len(out.calls) |-> [data |-> out.calls[i].data]]
          /\ (out.result.success /\ phase # "body") =>
               ctx.body = out.result.data
  /\ \A i \in 1..Len(hookLog) :
       hookLog[i].usedBefore => (hookLog[i].view.target = "request"
                                 /\ hookLog[i].hook # "onRequest")

\* An onRequest hook and an onResponse hook have each read a whole body
\* through their views; the handler got the request's body and the caller
\* gets the response unread
C19_Witness ==
  /\ pc = "done"
  /\ HookNames = <<"onRequest", "onResponse">>
  /\ hookLog[1].obs[1] = [op |-> "text", value |-> "content",
                          clone |-> "clone"]
  /\ hookLog[2].view.target = "chain"
  /\ hookLog[2].program = <<"bodyUsed", "read", "bodyUsed">>
  /\ hookLog[2].obs[2].value = "content"
  /\ ctx.body = request.body.json.value
  /\ response = chainResponse
  /\ "chain" \notin io.used

\* The rule of the fixed priority that applies to a thrown value
Priority(error) ==
  IF error.class = "HttpError" THEN "HttpError"
  ELSE IF error.class \in {"Error", "object"} /\ error.status.t = "num"
  THEN "status"
  ELSE IF error.class = "Error" THEN "Error"
  ELSE "opaque"

\* The chain threw and fetch's catch block normalized what it threw
ChainThrew == caught.kind = "caught" /\ caught.phase = "middleware"

StringCode(error) ==
  IF error.code.t = "str" THEN Code(error.code.s) ELSE NoCode

DetailsOf(error) ==
  IF error.details.t = "undef" THEN NoDetails ELSE Details(error.details)

\* The message as thrown, the default standing in for one that is not a
\* string
OwnMessage(error) ==
  IF error.message.t = "str" THEN error.message.s ELSE DefaultMessage

\* The message, the default standing in for one that is empty as well
MessageOrDefault(error) ==
  IF OwnMessage(error) = "" THEN DefaultMessage ELSE OwnMessage(error)

\* The status if it is an integer from 100 to 599, else 500
CoercedStatus(error) ==
  IF error.status.e = 0 /\ error.status.n \in 100..599
  THEN error.status.n ELSE 500

\* C20 as claimed: a value thrown by a middleware or the handler is
\* normalized by a fixed priority: an HttpError yields its status, message,
\* code and details; else an object with a numeric status yields that
\* status, its string message (or the default), its string code and its
\* details; else an Error yields 500 with its message; anything else
\* yields 500, the default message, no code and no details.
C20_NormalizeByPriority ==
  ChainThrew =>
    LET e == caught.error
        n == caught.normalized
    IN CASE Priority(e) = "HttpError" ->
              n = Normalized(e.status.n, OwnMessage(e), StringCode(e),
                             DetailsOf(e))
         [] Priority(e) = "status" ->
              n = Normalized(e.status.n, MessageOrDefault(e), StringCode(e),
                             DetailsOf(e))
         [] Priority(e) = "Error" ->
              n = Normalized(500, OwnMessage(e), NoCode, NoDetails)
         [] Priority(e) = "opaque" ->
              n = Normalized(500, DefaultMessage, NoCode, NoDetails)

\* C20 as amended: the status of an HttpError or of an object with a
\* numeric status is kept only if it is an integer from 100 to 599 and is
\* 500 otherwise, and an empty message of an HttpError or of an Error
\* yields the default message; the error response carries the normalized
\* status, message, code and details.
C20_NormalizeByPriorityCoerced ==
  ChainThrew =>
    LET e == caught.error
        n == caught.normalized
    IN /\ CASE Priority(e) = "HttpError" ->
                 n = Normalized(CoercedStatus(e), MessageOrDefault(e),
                                StringCode(e), DetailsOf(e))
            [] Priority(e) = "status" ->
                 n = Normalized(CoercedStatus(e), MessageOrDefault(e),
                                StringCode(e), DetailsOf(e))
            [] Priority(e) = "Error" ->
                 n = Normalized(500, MessageOrDefault(e), NoCode, NoDetails)
            [] Priority(e) = "opaque" ->
                 n = Normalized(500, DefaultMessage, NoCode, NoDetails)
       /\ pc = "done" =>
            /\ response.origin.kind = "framework"
            /\ response.status = n.status
            /\ response.error = n.message
            /\ response.code = n.code
            /\ response.details = n.details

\* An Error that carries a numeric status: the status rule comes before
\* the Error rule
C20_Witness ==
  /\ pc = "done"
  /\ ChainThrew
  /\ caught.error = Thrown("Error", Num(409, 0), Str("conflict"), Undefined,
                           Undefined)
  /\ response.status = 409
  /\ response.error = "conflict"

\* An HttpError with code and details
C20_HttpErrorWitness ==
  /\ pc = "done"
  /\ ChainThrew
  /\ Priority(caught.error) = "HttpError"
  /\ response.status = 422
  /\ response.code = Code("VALIDATION_FAILED")
  /\ response.details.present

\* The status of a thrown value is a number that is no integer from 100
\* to 599
StatusOutOfRange(e) ==
  /\ e.status.t = "num"
  /\ ~(e.status.e = 0 /\ e.status.n \in 100..599)

\* C21: every error response the pipeline produces has an integer status
\* from 100 to 599; a thrown status that is not an integer, is below 100
\* or is above 599 becomes 500, and the message and the code of the thrown
\* value are kept in the payload.
C21_ErrorStatusInRange ==
  pc = "done" =>
    /\ response.origin.kind = "framework" => response.status \in 100..599
    /\ (ChainThrew /\ Priority(caught.error) \in {"HttpError", "status"}
        /\ StatusOutOfRange(caught.error)) =>
         /\ response.status = 500
         /\ response.error = MessageOrDefault(caught.error)
         /\ response.code = StringCode(caught.error)

\* The handler threw {status: 700, message, code}
C21_Witness ==
  /\ pc = "done"
  /\ ChainThrew
  /\ caught.error = Thrown("object", Num(700, 0),
                           Str("Broken status from user-land"),
                           Str("BROKEN_STATUS"), Undefined)
  /\ response.status = 500
  /\ response.error = "Broken status from user-land"
  /\ response.code = Code("BROKEN_STATUS")

\* A status that is not an integer, and one below 100
C21_FractionWitness ==
  /\ pc = "done"
  /\ ChainThrew
  /\ caught.error.status \in {Num(4045, 1), Num(99, 0)}
  /\ response.status = 500
  /\ response.code \in {Code("HALF"), Code("LOW")}

\* C22: fetch never rejects: whatever is thrown at whatever phase, fetch
\* resolves with a JSON error response {error, code?, details?} and the
\* exception does not reach the caller.
C22_FetchNeverRejects ==
  /\ pc # "rejected"
  /\ (pc = "done" /\ caught.kind = "caught") =>
       /\ response.origin.kind = "framework"
       /\ response.contentType = "application/json"
       /\ response.error = caught.normalized.message

\* fetch rejects only where the details of the thrown value cannot be
\* serialized
RejectsOnlyUnserializable ==
  pc = "rejected" =>
    /\ caught.kind = "caught"
    /\ ~Serializable(caught.normalized.details)

\* The handler threw an HttpError with BigInt details and fetch rejected
FetchRejected ==
  /\ pc = "rejected"
  /\ ChainThrew
  /\ caught.error.class = "HttpError"
  /\ caught.error.details = BigInt
  /\ response = None

\* What fetch derives from request r alone for the Context of its call
DerivedParams(r) ==
  parseParams("zod", ConcurrentContract.params,
              matchPath(PathUserId, r.pathname).params).result.data

DerivedQuery(r) ==
  parseQuery("zod", ConcurrentContract.query, r.searchParams).result.data

DerivedHeaders(r) ==
  parseHeaders("zod", ConcurrentContract.headers, r.headers).result.data

DerivedBody(r) ==
  parseBody("zod", ConcurrentContract.body, r, FALSE).result.data

\* The Context of a call for request r: as fetch hands it to the chain
\* (given), after the handler's first writes, and after its last
ContextOf(r, body) ==
  [request |-> r, contract |-> ConcurrentContract.id,
   params |-> DerivedParams(r), query |-> DerivedQuery(r),
   headers |-> DerivedHeaders(r), body |-> body,
   cookies |-> parseCookies(r.cookie),
   responseCookies |-> <<>>, responseHeaders |-> <<>>]

GivenContext(r) == ContextOf(r, DerivedBody(r))

FinalContext(r) == HandlerResumes(HandlerEnters(GivenContext(r)))

Refused(call) ==
  /\ call.pc \in {"responding", "done"}
  /\ call.response.origin.kind = "framework"

ExpectedContext(call) ==
  IF call.pc = "parseBody" \/ Refused(call)
  THEN ContextOf(call.request, EmptyObj)
  ELSE IF call.pc = "handler" THEN HandlerEnters(GivenContext(call.request))
  ELSE FinalContext(call.request)

InHandler(i) == i \in DOMAIN inflight /\ inflight[i].pc = "handler"

Answered(i) ==
  /\ i \in DOMAIN inflight
  /\ inflight[i].pc = "done"
  /\ inflight[i].response.origin.kind = "handler"

C23_AnsweredWitness ==
  /\ Answered(1)
  /\ Answered(2)
  /\ Len(middlewares) = 1
  /\ inflight[1].response.setCookie
       = << <<"s","i","d","=","a">>, <<"n","a","m","e","=","A">> >>
  /\ inflight[2].response.setCookie
       = << <<"s","i","d","=","b","%","2","0","c">>,
            <<"n","a","m","e","=","B","%","2","0","C">> >>

\* The entries of the route table under key
TableEntries(key) == {i \in 1..Len(routes) : routes[i].key = key}

KeyOf(contract) == getRouteKey(contract.method, contract.path)

\* A contract that was registered and is no longer in the route table
Replaced(id) ==
  /\ id \in DOMAIN handlers
  /\ \A i \in 1..Len(routes) : routes[i].value.id # id

\* C24: the route table holds one contract per method and path, the one
\* registered last; a registration under a key already present replaces
\* the contract, and a request that matches is dispatched to the contract
\* and the handler of the last registration
C24_LastRegistrationWins ==
  /\ \A i \in 1..Len(routes) : routes[i].key \in DOMAIN lookup.latest
  /\ \A key \in DOMAIN lookup.latest :
       /\ Cardinality(TableEntries(key)) = 1
       /\ \A i \in TableEntries(key) :
            routes[i].value = lookup.latest[key].contract
       /\ handlers[lookup.latest[key].contract.id] = lookup.latest[key].fn
  /\ match.kind = "match" =>
       /\ KeyOf(match.contract) \in DOMAIN lookup.latest
       /\ match.contract = lookup.latest[KeyOf(match.contract)].contract
       /\ HandlerInvoked =>
            (lookup.latest[KeyOf(match.contract)].fn = "throws"
               <=> chain.mode = "thrown")
       /\ (HandlerInvoked /\ pc = "done") =>
            IF lookup.latest[KeyOf(match.contract)].fn = "throws"
            THEN caught.kind = "caught"
            ELSE response \in ResponsesOf(InvokedHandler)

\* "second" was registered under GET /u/:id and then "first" over it with
\* a handler that throws: GET /u/7 reached that handler
C24_Witness ==
  /\ Replaced("second")
  /\ handlers["second"] = "json"
  /\ match.kind = "match"
  /\ match.contract.id = "first"
  /\ pc = "done"
  /\ caught.kind = "caught"

\* The same with the handlers the other way round
C24_AnsweredWitness ==
  /\ Replaced("second")
  /\ handlers["second"] = "throws"
  /\ match.kind = "match"
  /\ match.contract.id = "first"
  /\ pc = "done"
  /\ response \in ResponsesOf(InvokedHandler)

\* router.find has answered for this request
RouteMatchingDone == pc \notin {"setup", "routing"}

\* C25: onRequest is invoked once the URL is parsed and route matching
\* has completed, and before params validation begins
C25_OnRequestAfterRouting ==
  /\ \A i \in Fired("onRequest") : request.urlValid /\ RouteMatchingDone
  /\ (options.hooks.onRequest /\ "params" \in Range(entered))
       => Fired("onRequest") # {}

\* What the code does: onRequest is invoked in the step that parses the
\* URL, with router.find still to be called, and never afterwards
OnRequestBeforeRouteMatching ==
  [][Fired("onRequest")' # Fired("onRequest")
       => /\ pc = "setup"
          /\ pc' = "routing"
          /\ request'.urlValid
          /\ match' = None]_vars

\* C25 as the code has it: onRequest is invoked once, after the URL is
\* parsed and before route matching and params validation begin; its
\* event carries no contract
C25_OnRequestBeforeRouting ==
  /\ \A i \in Fired("onRequest") :
       /\ i = 1
       /\ request.urlValid
       /\ hookLog[i].event.contract = None
  /\ (options.hooks.onRequest /\ pc # "setup" /\ request.urlValid)
       => Fired("onRequest") = {1}

\* onRequest has been invoked and router.find is still to be called
C25_Witness ==
  /\ pc = "routing"
  /\ match = None
  /\ Fired("onRequest") = {1}

\* onRequest has been invoked for a request that no route matches
OnRequestUnrouted ==
  /\ Fired("onRequest") # {}
  /\ pc = "done"
  /\ match = None
  /\ response.code = Code("ROUTE_NOT_FOUND")

\* The phase fetch entered last
CurrentPhase == entered[Len(entered)]

\* The middleware or the handler threw
ThrownInChain == chain.mode = "thrown"

\* C26: the phase an onError event carries is the phase fetch had entered
\* last when the exception was thrown: routing for a failure before a
\* route is resolved, params, query, headers or body for an exception
\* raised while that surface is validated, middleware for a value thrown
\* by a middleware or the handler, response_validation for an exception
\* raised while the response is checked
C26_ErrorPhase ==
  \A i \in Fired("onError") :
    /\ caught.kind = "caught"
    /\ hookLog[i].event.error = caught.error
    /\ hookLog[i].event.phase = CurrentPhase
    /\ hookLog[i].event.phase = phase
    /\ match = None => hookLog[i].event.phase = "routing"
    /\ (match # None /\ chain.mode = "idle")
         => /\ hookLog[i].event.phase \in Surfaces
            /\ caught.error = AdapterFailure
            /\ RaisingSchema(options.validator)
                 = match.contract[hookLog[i].event.phase]
    /\ ThrownInChain => hookLog[i].event.phase = "middleware"
    /\ validation.kind = "threw"
         => hookLog[i].event.phase = "response_validation"

\* onError was told routing for an invalid URL
C26_Witness ==
  /\ pc = "done"
  /\ ~request.urlValid
  /\ \E i \in Fired("onError") :
       /\ hookLog[i].event.phase = "routing"
       /\ hookLog[i].event.error = TypeError("Invalid URL")

\* onError was told middleware for a value the middleware threw, and for
\* one the handler threw
C26_MiddlewareWitness ==
  /\ ThrownInChain
  /\ invoked = <<InvokedMiddleware(0)>>
  /\ \E i \in Fired("onError") : hookLog[i].event.phase = "middleware"

C26_HandlerWitness ==
  /\ ThrownInChain
  /\ invoked = <<InvokedHandler>>
  /\ \E i \in Fired("onError") : hookLog[i].event.phase = "middleware"

\* onError was told response_validation for the TypeError of clone()
C26_ValidationWitness ==
  /\ validation.kind = "threw"
  /\ \E i \in Fired("onError") :
       /\ hookLog[i].event.phase = "response_validation"
       /\ hookLog[i].event.error = BodyConsumed

\* onError was told the surface on which the adapter raised
SurfaceWitness(p) ==
  \E i \in Fired("onError") :
    /\ hookLog[i].event.phase = p
    /\ hookLog[i].event.error = AdapterFailure

C26_ParamsWitness == SurfaceWitness("params")
C26_QueryWitness == SurfaceWitness("query")
C26_HeadersWitness == SurfaceWitness("headers")
C26_BodyWitness == SurfaceWitness("body")

\* The content-length header is missing, empty or not a non-negative
\* finite number
UnusableContentLength(cl) ==
  \/ cl.kind \in {"absent", "blank", "nan"}
  \/ cl.kind = "num" /\ cl.n < 0

\* readResponseText was entered
ReadEntered == rd.pc \in {"loop", "reading"} \/ rd.textResult # None

\* readResponseText gave up on a read that was in flight
ReadGaveUp == rd.pc = "done" /\ rd.unread # None

\* C27: when the response's content-length header is missing, empty or
\* not a non-negative finite number, the read of the clone's body runs
\* under one deadline, fixed 50 ms after the read starts and not renewed
\* when a chunk arrives: no chunk and no end of stream is taken after it,
\* and the read never stays pending.  When the deadline passes before the
\* stream ends, the read in flight is cancelled and validation is skipped
\* as a pass: fetch returns the handler's response, not INVALID_RESPONSE.
C27_ReadDeadline ==
  (ReadEntered /\ UnusableContentLength(rd.response.contentLength)) =>
    /\ rd.useTimeout
    /\ rd.deadline.finite
    /\ rd.deadline.t = rd.start + RESPONSE_VALIDATION_READ_TIMEOUT_MS
    /\ rd.now <= rd.deadline.t
    /\ rd.pc # "reading"
    /\ ReadGaveUp =>
         /\ rd.unread.kind = "event" => rd.unread.at >= rd.deadline.t
         /\ rd.now = rd.deadline.t
         /\ rd.cancelled
         /\ rd.textResult = SkippedText
         /\ rd.validation.success
         /\ rd.validation.kind = "skipped"
         /\ rd.validation.calls = <<>>
         /\ rd.returned = rd.response

\* Two chunks came in, 20 ms and 40 ms after the start; the stream's next
\* event was due 70 ms after the start
C27_Witness ==
  /\ ReadGaveUp
  /\ rd.response.contentLength = [kind |-> "nan"]
  /\ rd.start = 100
  /\ Len(rd.chunks) = 2
  /\ rd.unread = [kind |-> "event", at |-> 170]
  /\ rd.now = 150
  /\ rd.returned = rd.response

\* A stream that stays open for ever, with a negative content-length
C27_NeverWitness ==
  /\ ReadGaveUp
  /\ rd.response.contentLength = [kind |-> "num", n |-> -1]
  /\ rd.unread = [kind |-> "never"]
  /\ rd.returned = rd.response

\* A stream that ends within the deadline is validated: here it fails
C27_InTimeWitness ==
  /\ rd.pc = "done"
  /\ rd.useTimeout
  /\ rd.textResult.kind = "data"
  /\ Len(rd.chunks) = 2
  /\ rd.now = rd.deadline.t
  /\ ~rd.validation.success

\* validateResponse has returned for a response with status 204 or 304, or
\* without a body
Bodyless ==
  /\ rd.pc = "done"
  /\ \/ rd.response.status \in {204, 304}
     \/ rd.response.body.kind = "none"

\* C28 as claimed: a response with status 204 or 304, or a response with
\* no body, validates trivially: response validation passes for it,
\* whatever schema the contract declares for that status.
C28_BodylessPasses ==
  Bodyless =>
    /\ rd.validation.success
    /\ rd.returned = rd.response

\* C28 as amended: for a response with status 204 or 304, or with no body,
\* no body is cloned or read and undefined is handed to the adapter in one
\* call; validation passes exactly when the schema declared for that
\* status accepts undefined, and fails otherwise with a 500
\* INVALID_RESPONSE that carries the adapter's error.
C28_BodylessValidatedAsUndefined ==
  Bodyless =>
    /\ rd.textResult = None
    /\ rd.validation.read = "none"
    /\ Len(rd.validation.calls) = 1
    /\ rd.validation.calls[1].data = Undefined
    /\ rd.validation.success <=> rd.schema.optional
    /\ rd.validation.success => rd.returned = rd.response
    /\ ~rd.validation.success =>
         rd.returned =
           errorResponse(Num(500, 0), "Invalid response",
                         Code("INVALID_RESPONSE"),
                         Details(rd.validation.calls[1].result.error))

\* A 204 and a schema that requires an object: refused
C28_Witness ==
  /\ Bodyless
  /\ rd.response.status = 204
  /\ rd.schema = UserSchema
  /\ ~rd.validation.success
  /\ rd.returned.status = 500

\* A 200 without a body and a schema that accepts undefined: passes
C28_PassWitness ==
  /\ Bodyless
  /\ rd.response.status = 200
  /\ rd.response.body.kind = "none"
  /\ rd.schema = OptionalUserSchema
  /\ rd.returned = rd.response

\* The table entries that find's last call matched, by position in the
\* Map's insertion order, and the score of each
Candidates ==
  {i \in 1..Len(routes) :
     RouteMatches(routes[i].value, lookup.method, lookup.pathname)}

Score(i) == staticSegments(routes[i].value.path)

\* The candidates with the highest score
TopCandidates == {i \in Candidates : \A j \in Candidates : Score(i) >= Score(j)}

\* The position of the entry that find returned
Returned ==
  CHOOSE i \in 1..Len(routes) : routes[i].value = lookup.result.contract

\* C29: when several same-method routes match the pathname with the same
\* score, find returns the one registered first: the result is the
\* earliest entry among those with the highest score, so every matching
\* entry after it scores no more and every matching entry before it scores
\* strictly less.
C29_FirstRegisteredWins ==
  (lookup.kind = "find" /\ Candidates # {}) =>
    /\ lookup.result.kind = "match"
    /\ Returned \in TopCandidates
    /\ \A i \in TopCandidates : Returned <= i
    /\ \A i \in Candidates :
         /\ i > Returned => Score(i) <= Score(Returned)
         /\ i < Returned => Score(i) < Score(Returned)

\* GET /u/me with /:a/me registered before /u/:id, one static segment each
C29_Witness ==
  /\ lookup.kind = "find"
  /\ lookup.pathname = PathUserMe
  /\ Len(routes) >= 2
  /\ routes[1].value.id = "getMeParam"
  /\ routes[2].value.id = "getUserById"
  /\ TopCandidates = {1, 2}
  /\ lookup.result.contract.id = "getMeParam"

\* The same two routes registered in the other order
C29_OtherOrderWitness ==
  /\ lookup.kind = "find"
  /\ lookup.pathname = PathUserMe
  /\ Len(routes) >= 2
  /\ routes[1].value.id = "getUserById"
  /\ routes[2].value.id = "getMeParam"
  /\ TopCandidates = {1, 2}
  /\ lookup.result.contract.id = "getUserById"

\* A route registered again keeps its place in the Map: its new contract
\* is returned ahead of a tied route registered in between
C29_ReplacedWitness ==
  /\ lookup.kind = "find"
  /\ lookup.pathname = PathUserMe
  /\ Len(routes) = 2
  /\ routes[1].value.id = "getUserById2"
  /\ routes[2].value.id = "getMeParam"
  /\ lookup.result.contract.id = "getUserById2"

\* The calls fetch made to the adapter on the query, in order
QueryCalls == SelectSeq(adapterLog, LAMBDA call : call.surface = "query")

\* The adapter refused the raw query and offers no paths to coerce: it has
\* no getErrorPaths, or getErrorPaths returns no key for that error
NoPathsToCoerce ==
  /\ Len(QueryCalls) > 0
  /\ ~QueryCalls[1].result.success
  /\ \/ options.validator = "noPaths"
     \/ Len(zodValidator_getErrorPaths(QueryCalls[1].result.error)) = 0

\* C30: if the adapter has no getErrorPaths, or getErrorPaths returns no
\* keys for the raw failure, query coercion is skipped: the adapter is
\* called exactly once on the query, with the raw strings, and the error
\* of that call is the details of the 400 INVALID_QUERY that fetch
\* returns.
C30_NoPathsNoCoercion ==
  NoPathsToCoerce =>
    /\ Len(QueryCalls) = 1
    /\ QueryCalls[1].data
         = queryObjectFrom(request.searchParams, 1, <<>>)
    /\ pc = "done"
    /\ phase = "query"
    /\ invoked = <<>>
    /\ response = errorResponse(Num(400, 0), "Invalid query",
                                Code("INVALID_QUERY"),
                                Details(QueryCalls[1].result.error))

\* ?id=123&page=2 under an adapter without getErrorPaths: page stays the
\* string "2" and the request is refused
C30_Witness ==
  /\ NoPathsToCoerce
  /\ options.validator = "noPaths"
  /\ request.searchParams = QueryGood
  /\ match.contract.id = "postUser"
  /\ response.status = 400
  /\ response.details
       = Details(ZodError(<<[path |-> <<"page">>]>>))

\* The zod adapter handed a schema of another library: its error has no
\* paths
C30_NoKeysWitness ==
  /\ NoPathsToCoerce
  /\ options.validator = "zod"
  /\ match.contract.id = "postForeign"
  /\ response.status = 400
  /\ response.details = Details(NotZodSchemaError)

\* The same query under the zod adapter is coerced and accepted
C30_CoercedWitness ==
  /\ options.validator = "zod"
  /\ request # None
  /\ request.searchParams = QueryGood
  /\ Len(QueryCalls) = 2
  /\ QueryCalls[2].result.success
  /\ pc = "done"

\* The query phase has run for a contract without a query schema
SchemalessQuery ==
  /\ match # None
  /\ match.contract.query.kind = "none"
  /\ \E i \in 1..Len(entered) : entered[i] = "query"

\* C31: when the contract declares no query schema, the query placed on
\* the Context is a flattening of the raw query string in which a key that
\* appears more than once is promoted to the list of its values.
C31_RepeatedKeysPromoted ==
  SchemalessQuery =>
    ctx.query = queryObjectFrom(request.searchParams, 1, <<>>)

\* What the code does instead: Object.fromEntries keeps, for each key, the
\* last of its values as a string
SchemalessQueryLastWins ==
  SchemalessQuery =>
    /\ ctx.query = fromEntries(request.searchParams, 1, <<>>)
    /\ \A k \in DOMAIN ctx.query.o : ctx.query.o[k].t = "str"
    /\ \A i \in 1..Len(request.searchParams) :
         (\A j \in (i + 1)..Len(request.searchParams) :
            request.searchParams[j].key # request.searchParams[i].key)
           => ctx.query.o[request.searchParams[i].key]
                = Str(request.searchParams[i].value)

\* ?id=123&page=2&page=3 on a contract without a query schema
SchemalessRepeatedKey ==
  /\ SchemalessQuery
  /\ Len(request.searchParams) = 3
  /\ ctx.query.o["page"] = Str(<<"3">>)

\* The body phase has run
BodyPhaseRan ==
  /\ match # None
  /\ \E i \in 1..Len(entered) : entered[i] = "body"

\* The request's body was read or cloned
RequestBodyTouched == "request" \in io.used \/ io.clones.request > 0

\* The request's method is POST, PUT, PATCH or DELETE and the contract
\* declares a body schema
BodyExpected ==
  /\ request.method \in {POST, PUT, PATCH, DELETE}
  /\ match.contract.body.kind # "none"

\* C32: the request body is read and parsed only when the method is POST,
\* PUT, PATCH or DELETE and the contract declares a body schema; in every
\* other case the body phase does not read, clone or consume the request
\* body, makes no call to the adapter and leaves the Context body at its
\* default.  In the first case the body is read.
C32_BodyReadOnlyWhenExpected ==
  BodyPhaseRan =>
    /\ ~BodyExpected =>
         /\ ~RequestBodyTouched
         /\ BodyCalls = {}
         /\ ctx.body = NewContext.body
         /\ caught.kind # "caught"
    /\ BodyExpected => RequestBodyTouched

\* OPTIONS with a body, under a contract that declares a body schema
C32_Witness ==
  /\ BodyPhaseRan
  /\ pc = "done"
  /\ request.method = OPTIONS
  /\ request.body.text = NameText
  /\ match.contract.body = BodySchema
  /\ ~RequestBodyTouched
  /\ response.status = 200

\* POST with a body, under a contract without a body schema
C32_NoSchemaWitness ==
  /\ BodyPhaseRan
  /\ pc = "done"
  /\ request.method = POST
  /\ match.contract.id = "postNoBody"
  /\ ~RequestBodyTouched
  /\ response.status = 200

\* DELETE with a body that the schema accepts
C32_DeleteWitness ==
  /\ BodyPhaseRan
  /\ pc = "done"
  /\ request.method = DELETE
  /\ RequestBodyTouched
  /\ ctx.body = NameValue
  /\ response.status = 200

\* A text of blanks, tabs and line ends only, or the empty text
WhiteSpaceOnly(text) ==
  Range(text) \subseteq {" ", "\n", "\t", "\r"}

\* parseBody has run on an application/json body that is empty or holds
\* white space only
BlankJsonBody ==
  /\ BodyPhaseRan
  /\ BodyExpected
  /\ IncludesJson(request.body.contentType)
  /\ WhiteSpaceOnly(request.body.text)

\* C33: an application/json request body that is empty or whitespace-only
\* is handed to the adapter as undefined rather than failing to parse: a
\* contract whose body schema is optional validates, the Context body is
\* undefined and the handler runs; a schema that requires a value refuses
\* it with the adapter's error, not with a parse error.
C33_BlankJsonIsUndefined ==
  BlankJsonBody =>
    /\ Cardinality(BodyCalls) = 1
    /\ \A i \in BodyCalls :
         /\ adapterLog[i].data = Undefined
         /\ adapterLog[i].result.success <=> match.contract.body.optional
         /\ ~adapterLog[i].result.success =>
              /\ pc = "done"
              /\ response = errorResponse(Num(400, 0), "Invalid body",
                                          Code("INVALID_BODY"),
                                          Details(adapterLog[i].result.error))
              /\ adapterLog[i].result.error.kind = "ZodError"
    /\ caught.kind # "caught"
    /\ match.contract.body.optional =>
         /\ ctx.body = Undefined
         /\ pc = "done" =>
              /\ invoked = <<InvokedHandler>>
              /\ response = chainResponse

\* POST with an empty body under an optional body schema: answered by the
\* handler
C33_Witness ==
  /\ BlankJsonBody
  /\ request.body.text = <<>>
  /\ match.contract.id = "postOptional"
  /\ pc = "done"
  /\ ctx.body = Undefined
  /\ invoked = <<InvokedHandler>>
  /\ response.status = 200

\* A body of white space only
C33_WhitespaceWitness ==
  /\ BlankJsonBody
  /\ request.body.text = <<" ", "\n">>
  /\ match.contract.id = "postOptional"
  /\ pc = "done"
  /\ ctx.body = Undefined
  /\ response.status = 200

\* An empty body under a schema that requires an object
C33_RequiredWitness ==
  /\ BlankJsonBody
  /\ match.contract.id = "postBody"
  /\ pc = "done"
  /\ response.status = 400
  /\ response.code = Code("INVALID_BODY")

\* parseBody has run on a body that cannot be parsed: malformed JSON under
\* application/json, or a multipart/form-data payload that formData()
\* refuses
UnparsableBody ==
  /\ BodyPhaseRan
  /\ BodyExpected
  /\ \/ /\ IncludesJson(request.body.contentType)
        /\ ~WhiteSpaceOnly(request.body.text)
        /\ ~request.body.json.ok
     \/ /\ IncludesMultipart(request.body.contentType)
        /\ ~request.body.multipartOk

ParseFailure ==
  IF IncludesJson(request.body.contentType)
  THEN [kind |-> "string", text |-> "Invalid JSON"]
  ELSE [kind |-> "string", text |-> "Invalid multipart form data"]

\* C34: a body that cannot be parsed yields a 400 INVALID_BODY response
\* whose details are a parse-level string; the adapter is not called for
\* the body, neither middleware nor handler is invoked, and no exception
\* reaches fetch's catch block to become a 500.
C34_UnparsableBodyIs400 ==
  UnparsableBody =>
    /\ pc = "done"
    /\ phase = "body"
    /\ response = errorResponse(Num(400, 0), "Invalid body",
                                Code("INVALID_BODY"), Details(ParseFailure))
    /\ BodyCalls = {}
    /\ invoked = <<>>
    /\ chain = IdleChain
    /\ caught.kind # "caught"

\* A multipart payload with a wrong boundary
C34_Witness ==
  /\ UnparsableBody
  /\ IncludesMultipart(request.body.contentType)
  /\ request.method = POST
  /\ response.status = 400
  /\ response.details
       = Details([kind |-> "string", text |-> "Invalid multipart form data"])

\* Malformed JSON
C34_JsonWitness ==
  /\ UnparsableBody
  /\ request.body.text = <<"{">>
  /\ request.method = PUT
  /\ response.status = 400
  /\ response.details = Details([kind |-> "string", text |-> "Invalid JSON"])

\* String.prototype.toLowerCase on the modelled content types
toLowerCase(contentType) ==
  IF contentType = "Application/JSON" THEN "application/json"
  ELSE contentType

\* The request with its content-type in lower case
LowerCased(r) ==
  [r EXCEPT !.body.contentType = toLowerCase(r.body.contentType)]

\* What parseBody hands to the adapter, or its parse failure
Parsed(out) ==
  IF Len(out.calls) > 0 THEN [kind |-> "data", data |-> out.calls[1].data]
  ELSE [kind |-> "failure", error |-> out.result.error]

\* C35: the body parser is chosen from the lowercase-normalized
\* content-type: a request parses to the same value as the request that
\* differs from it only in the letter case of its content-type, an empty
\* body included.
C35_ContentTypeCaseIgnored ==
  (BodyPhaseRan /\ BodyExpected) =>
    Parsed(parseBody(options.validator, match.contract.body, request, FALSE))
      = Parsed(parseBody(options.validator, match.contract.body,
                         LowerCased(request), FALSE))

\* What the code does: the content-type is matched as sent, so
\* Application/JSON takes the fallback branch; a text that is JSON parses
\* to the same value, any other text is handed over as a string
UpperCaseJsonFallsBack ==
  (BodyPhaseRan /\ BodyExpected
     /\ request.body.contentType = "Application/JSON") =>
    /\ io.clones.request = 1
    /\ Cardinality(BodyCalls) = 1
    /\ \A i \in BodyCalls :
         adapterLog[i].data = IF request.body.json.ok
                              THEN request.body.json.value
                              ELSE Str(request.body.text)

\* POST with content-type Application/JSON and an empty body, under an
\* optional body schema: refused, where application/json is accepted
UpperCaseEmptyRefused ==
  /\ BodyPhaseRan
  /\ request.body.contentType = "Application/JSON"
  /\ request.body.text = <<>>
  /\ match.contract.id = "postOptional"
  /\ pc = "done"
  /\ response.status = 400

\* The operations of a view that look at metadata only
MetadataOps == {"meta", "body", "bodyUsed"}

MetadataOnly(e) == \A j \in 1..Len(e.program) : e.program[j] \in MetadataOps

\* C36: a hook that only inspects metadata through its view (status,
\* headers, whether a body is present, bodyUsed) makes no clone() call on
\* the request and none on the response, and its view is left without a
\* body clone, whether the body is a finite payload or an open SSE stream.
C36_MetadataNeverClones ==
  \A i \in 1..Len(hookLog) :
    MetadataOnly(hookLog[i]) =>
      /\ hookLog[i].clonesAfter = hookLog[i].clonesBefore
      /\ hookLog[i].view.clone = "none"
      /\ \A j \in 1..Len(hookLog[i].obs) : hookLog[i].obs[j].clone = "none"
      /\ ~hookLog[i].threw

\* An onResponse hook inspected the metadata of an open SSE stream response
C36_Witness ==
  \E i \in 1..Len(hookLog) :
    /\ hookLog[i].hook = "onResponse"
    /\ MetadataOnly(hookLog[i])
    /\ Len(hookLog[i].obs) = 3
    /\ hookLog[i].view.target = "chain"
    /\ hookLog[i].hadBody
    /\ hookLog[i].event.response.contentType = "text/event-stream"
    /\ hookLog[i].event.response.body.stream = "open"
    /\ hookLog[i].obs[2].value = "stream"

\* An onRequest hook inspected the metadata of a request with a finite body
C36_FinitePayloadWitness ==
  \E i \in 1..Len(hookLog) :
    /\ hookLog[i].hook = "onRequest"
    /\ MetadataOnly(hookLog[i])
    /\ hookLog[i].view.target = "request"
    /\ hookLog[i].hadBody
    /\ request.body = BodyGood
    /\ hookLog[i].obs[3].value = "false"

\* The failures fetch answers by itself, without a throw: no route
\* matches, the matched contract has no handler, the body does not parse,
\* the adapter rejects a surface of the request or the response
RouteNotFound ==
  /\ request.urlValid
  /\ match.kind = "none"
  /\ Router_find(routes, request.method, request.pathname).kind = "nomatch"

HandlerNotFound ==
  /\ match.kind = "match"
  /\ ~HandlerRegistered(match.contract)

AdapterRejected == Len(adapterLog) > 0 /\ ~LastCall.result.success

BodyNotParsed ==
  /\ match.kind = "match"
  /\ entered = <<"routing", "params", "query", "headers", "body">>
  /\ request.body = BodyMalformed

FailureWithoutThrow ==
  RouteNotFound \/ HandlerNotFound \/ AdapterRejected \/ BodyNotParsed

FailureCodes ==
  {Code(c) : c \in {"ROUTE_NOT_FOUND", "HANDLER_NOT_FOUND", "INVALID_PARAMS",
                    "INVALID_QUERY", "INVALID_HEADERS", "INVALID_BODY",
                    "INVALID_RESPONSE"}}

\* C37: a failure of routing or of input validation (404 ROUTE_NOT_FOUND,
\* 500 HANDLER_NOT_FOUND, 400 INVALID_*) and a response-contract failure
\* (500 INVALID_RESPONSE) never fire onError: fetch's catch block is not
\* entered and onResponse is the only hook invoked; onError fires only for
\* a value that was thrown and caught by the pipeline.
C37_FailuresSkipOnError ==
  /\ (pc = "done" /\ FailureWithoutThrow) =>
       /\ response.origin.kind = "framework"
       /\ response.code \in FailureCodes
       /\ caught.kind # "caught"
       /\ Fired("onError") = {}
       /\ HookNames = IF options.hooks.onResponse THEN <<"onResponse">>
                      ELSE <<>>
  /\ \A i \in Fired("onError") :
       /\ caught.kind = "caught"
       /\ hookLog[i].event.error = caught.error

\* A response that broke the contract: 500 INVALID_RESPONSE went to
\* onResponse and onError stayed silent
C37_Witness ==
  /\ pc = "done"
  /\ options.hooks.onResponse
  /\ AdapterRejected
  /\ LastCall.surface = "response"
  /\ response.code = Code("INVALID_RESPONSE")
  /\ HookNames = <<"onResponse">>

C37_RouteWitness ==
  /\ pc = "done"
  /\ RouteNotFound
  /\ response.code = Code("ROUTE_NOT_FOUND")
  /\ HookNames = <<"onResponse">>

C37_HandlerWitness ==
  /\ pc = "done"
  /\ HandlerNotFound
  /\ response.code = Code("HANDLER_NOT_FOUND")
  /\ HookNames = <<"onResponse">>

InputFailureSeen(surface) ==
  /\ pc = "done"
  /\ AdapterRejected
  /\ LastCall.surface = surface
  /\ response.code = Code(ExpectedCode(surface))
  /\ HookNames = <<"onResponse">>

C37_ParamsWitness == InputFailureSeen("params")
C37_QueryWitness == InputFailureSeen("query")
C37_HeadersWitness == InputFailureSeen("headers")
C37_BodyWitness == InputFailureSeen("body")

C37_ParseWitness ==
  /\ pc = "done"
  /\ BodyNotParsed
  /\ response.code = Code("INVALID_BODY")
  /\ HookNames = <<"onResponse">>

\* A value the handler threw: onError fired, then onResponse
C37_ThrownWitness ==
  /\ pc = "done"
  /\ caught.kind = "caught"
  /\ caught.phase = "middleware"
  /\ HookNames = <<"onError", "onResponse">>

\* How often the code at position j of the chain runs in one fetch when
\* every call of next runs the rest of the chain: position 0 once, the
\* position after a middleware once per call that middleware makes
RECURSIVE Runs(_)
Runs(j) ==
  IF j = 0 THEN 1
  ELSE CASE middlewares[j] = "short" -> 0
         [] middlewares[j] = "twice" -> 2 * Runs(j - 1)
         [] OTHER -> Runs(j - 1)

Count(origin) ==
  Cardinality({n \in 1..Len(invoked) : invoked[n] = origin})

\* The chain of this fetch has returned
ChainReturned == chainResponse # None

\* C38: the chain has no guard against a repeated continuation: each call
\* of next runs the whole rest of the chain again, so under a middleware
\* that calls next twice every later middleware and the handler run twice
\* (executeMiddleware hands every call the one ctx of the fetch), nothing
\* is thrown, and the response of the chain is the one that middleware
\* chose to return.
C38_NextReexecutesChain ==
  ChainReturned =>
    /\ \A j \in 0..(Len(middlewares) - 1) :
         Count(InvokedMiddleware(j)) = Runs(j)
    /\ Count(InvokedHandler) = Runs(Len(middlewares))
    /\ caught.kind # "caught"
    /\ (middlewares # <<>> /\ middlewares[1] = "twice") =>
         /\ Len(chain.held[0]) = 2
         /\ chainResponse \in {chain.held[0][1], chain.held[0][2]}

\* One middleware that calls next twice, then a passing one: the passing
\* middleware and the handler ran twice, and the first call's response
\* was returned although the second call gave another
C38_Witness ==
  /\ pc = "done"
  /\ middlewares = <<"twice", "pass">>
  /\ invoked = <<InvokedMiddleware(0), InvokedMiddleware(1), InvokedHandler,
                 InvokedMiddleware(1), InvokedHandler>>
  /\ chain.held[0][1] # chain.held[0][2]
  /\ response = chain.held[0][1]

\* The same middleware returned the response of its second call
C38_SecondWitness ==
  /\ pc = "done"
  /\ middlewares = <<"twice">>
  /\ invoked = <<InvokedMiddleware(0), InvokedHandler, InvokedHandler>>
  /\ chain.held[0][1] # chain.held[0][2]
  /\ response = chain.held[0][2]

\* Two such middleware in a row: the handler ran four times
C38_NestedWitness ==
  /\ pc = "done"
  /\ middlewares = <<"twice", "twice">>
  /\ Count(InvokedHandler) = 4

\* The middleware at index j ran in this fetch
Ran(j) == \E n \in DOMAIN invoked : invoked[n] = InvokedMiddleware(j)

\* C39: the middleware list is read at each step of the chain, not
\* snapshotted when the request starts: a middleware added by App.use
\* while the request is suspended in a middleware that has not called
\* next yet runs for that request, after the middleware that were there
\* and before the handler; one added once the request has reached the
\* handler does not run for it.
C39_LateMiddlewareRuns ==
  /\ ChainReturned =>
       \A j \in 0..(Len(middlewares) - 1) :
         /\ middlewares[j + 1] = "lateBeforeHandler" => Ran(j)
         /\ middlewares[j + 1] = "lateAfterHandler" => ~Ran(j)
         /\ middlewares[j + 1] \notin LateKinds => Ran(j)
  /\ \A n \in 1..Len(invoked) :
       \/ invoked[n] = InvokedMiddleware(n - 1)
       \/ n = Len(invoked) /\ invoked[n] = InvokedHandler

\* App.use was called while the only middleware was suspended: the added
\* middleware ran before the handler
C39_Witness ==
  /\ pc = "done"
  /\ middlewares = <<"await", "lateBeforeHandler">>
  /\ invoked = <<InvokedMiddleware(0), InvokedMiddleware(1), InvokedHandler>>

\* App.use was called after the handler had been invoked: the request is
\* answered without the added middleware
C39_UnaffectedWitness ==
  /\ pc = "done"
  /\ middlewares = <<"await", "lateAfterHandler">>
  /\ invoked = <<InvokedMiddleware(0), InvokedHandler>>

\* Both in one fetch
C39_BothWitness ==
  /\ pc = "done"
  /\ middlewares = <<"await", "lateBeforeHandler", "lateAfterHandler">>
  /\ invoked = <<InvokedMiddleware(0), InvokedMiddleware(1), InvokedHandler>>

\* A request view handed to an onResponse or onError hook after parseBody
\* had consumed the request's body, on which the hook invoked a
\* body-reading operation
ConsumedRequestRead(e) ==
  /\ e.hook \in {"onResponse", "onError"}
  /\ e.view.target = "request"
  /\ e.hadBody
  /\ e.usedBefore
  /\ HookReadBody(e)

BodyReads(e) == {j \in 1..Len(e.obs) : e.obs[j].op \in {"text", "read"}}

\* The clone attempt was made once and failed into the body-less copy
FellBack(e) ==
  /\ e.view.clone = "fallback"
  /\ ClonesBy(e) = 1

\* C40 as claimed: a request view made for onResponse or onError after the
\* body phase consumed the request body cannot clone it: the view falls
\* back to a body-less request, every body read in the hook observes an
\* empty body, and no failure reaches the hook or the caller.
C40_ConsumedBodyReadsEmpty ==
  \A i \in 1..Len(hookLog) :
    ConsumedRequestRead(hookLog[i]) =>
      /\ FellBack(hookLog[i])
      /\ \A j \in BodyReads(hookLog[i]) : hookLog[i].obs[j].value = "empty"
      /\ hookLog[i].threw => "throw" \in Range(hookLog[i].program)

\* C40 as amended: the view falls back to a body-less request; a body
\* reader method (text, json, ...) of the view observes an empty body; a
\* read through view.body finds no stream on the body-less request and
\* raises a TypeError inside the hook; neither that nor the failed clone
\* reaches the caller.
C40_ConsumedBodyFallback ==
  /\ \A i \in 1..Len(hookLog) :
       ConsumedRequestRead(hookLog[i]) =>
         /\ FellBack(hookLog[i])
         /\ \A j \in BodyReads(hookLog[i]) :
              hookLog[i].obs[j].value =
                IF hookLog[i].obs[j].op = "text" THEN "empty" ELSE "TypeError"
         /\ hookLog[i].threw =>
              \/ "throw" \in Range(hookLog[i].program)
              \/ "read" \in Range(hookLog[i].program)
  /\ caught.kind = "caught" => caught.error # HookFailure

\* An onResponse hook read the text of the request after parseBody had
\* read it: it saw an empty body and fetch returned the handler's response
C40_Witness ==
  /\ pc = "done"
  /\ response = chainResponse
  /\ BodyCalls # {}
  /\ \E i \in 1..Len(hookLog) :
       /\ hookLog[i].hook = "onResponse"
       /\ ConsumedRequestRead(hookLog[i])
       /\ hookLog[i].program = <<"text", "text">>
       /\ hookLog[i].obs[1].value = "empty"
       /\ hookLog[i].obs[2].value = "empty"
       /\ ~hookLog[i].threw

\* The same in an onError hook, after the handler threw
C40_ErrorWitness ==
  /\ pc = "done"
  /\ caught.kind = "caught"
  /\ \E i \in 1..Len(hookLog) :
       /\ hookLog[i].hook = "onError"
       /\ ConsumedRequestRead(hookLog[i])
       /\ hookLog[i].obs[1].value = "empty"

\* A hook that read view.body's stream got a TypeError, and fetch returned
\* the handler's response
C40_StreamWitness ==
  /\ pc = "done"
  /\ response = chainResponse
  /\ \E i \in 1..Len(hookLog) :
       /\ hookLog[i].hook = "onResponse"
       /\ ConsumedRequestRead(hookLog[i])
       /\ hookLog[i].program = <<"bodyUsed", "read", "bodyUsed">>
       /\ hookLog[i].obs[2].value = "TypeError"
       /\ hookLog[i].threw

====
